---- MODULE Spec2Model ----
(***************************************************************************)
(* Model of the delivery-date calculator (calculateDelivery, isHoliday)    *)
(* and of the hourglass sand model (SandPhysicsEngine) of src/app.js,      *)
(* together with the older calculateDelivery kept in src/unnamed/part_000. *)
(*                                                                         *)
(* A JavaScript Date is modelled by its local day number (days since       *)
(* 1970-01-01, the ECMAScript time value divided by msPerDay); the time of *)
(* day plays no role in any of the modelled code.  Strings typed into the  *)
(* page are sequences of one-character strings so that split, Number and   *)
(* parseInt are computed, not assumed.  Japanese text of the source is     *)
(* transliterated to ASCII (day names, holiday names, brackets).           *)
(***************************************************************************)
EXTENDS Integers, Sequences, FiniteSets, TLC

(***************************************************************************)
(* Bounds of the model.                                                    *)
(***************************************************************************)
\* largest lead time typed into #calc-lead-time
MaxLead == 5
\* the buttons of the page clicked in a session, the calculator's aside
MaxClicks == 2
\* the count of notification sounds saturates here
MaxSounds == 2
\* the sand grid: progress and volumes are multiples of 1/Den
Den == 10
\* progress values are drawn from -Over/Den .. (Den+Over)/Den
Over == 2

(***************************************************************************)
(* JavaScript values.                                                      *)
(***************************************************************************)
\* the Number NaN: a value outside every range of numbers the model uses
NaN == 0 - 1000000000
isNaN(v) == v = NaN
\* the value of a missing property
undefined == "undefined"
\* ToBoolean of a holiday name or of undefined
Truthy(v) == v # undefined /\ v # ""

(***************************************************************************)
(* ECMAScript date arithmetic on day numbers.                              *)
(***************************************************************************)
DayFromYear(y) ==
    365 * (y - 1970) + ((y - 1969) \div 4) - ((y - 1901) \div 100) + ((y - 1601) \div 400)
DaysInYear(y) ==
    IF y % 4 # 0 THEN 365 ELSE IF y % 100 # 0 THEN 366 ELSE IF y % 400 # 0 THEN 365 ELSE 366
\* the year y with DayFromYear(y) <= t < DayFromYear(y + 1), for days of 1970 .. 2300:
\* 1970 + t \div 366 is that year or the one before
YearFromTime(t) ==
    LET y0 == 1970 + (t \div 366)
    IN  IF DayFromYear(y0 + 1) <= t THEN y0 + 1 ELSE y0
InLeapYear(t) == IF DaysInYear(YearFromTime(t)) = 366 THEN 1 ELSE 0
DayWithinYear(t) == t - DayFromYear(YearFromTime(t))
\* first day-within-year of each zero-based month
MonthStart(m, leap) ==
    CASE m = 0 -> 0
      [] m = 1 -> 31
      [] m = 2 -> 59 + leap
      [] m = 3 -> 90 + leap
      [] m = 4 -> 120 + leap
      [] m = 5 -> 151 + leap
      [] m = 6 -> 181 + leap
      [] m = 7 -> 212 + leap
      [] m = 8 -> 243 + leap
      [] m = 9 -> 273 + leap
      [] m = 10 -> 304 + leap
      [] m = 11 -> 334 + leap
\* MonthFromTime of a day-within-year d
MonthOfDay(d, leap) ==
    IF d < 31 THEN 0
    ELSE IF d < 59 + leap THEN 1
    ELSE IF d < 90 + leap THEN 2
    ELSE IF d < 120 + leap THEN 3
    ELSE IF d < 151 + leap THEN 4
    ELSE IF d < 181 + leap THEN 5
    ELSE IF d < 212 + leap THEN 6
    ELSE IF d < 243 + leap THEN 7
    ELSE IF d < 273 + leap THEN 8
    ELSE IF d < 304 + leap THEN 9
    ELSE IF d < 334 + leap THEN 10
    ELSE 11
MonthFromTime(t) == MonthOfDay(DayWithinYear(t), InLeapYear(t))
DateFromTime(t) == DayWithinYear(t) - MonthStart(MonthFromTime(t), InLeapYear(t)) + 1
WeekDay(t) == (t + 4) % 7
\* the days the model works with: 2024-12-01 .. 2029-02-28
ModelDays == (DayFromYear(2025) - 31) .. (DayFromYear(2029) + 150)
\* year, month, date and weekday of every model day, computed once
CivilDate ==
    [t \in ModelDays |->
        [year |-> YearFromTime(t), month |-> MonthFromTime(t),
         date |-> DateFromTime(t), day |-> WeekDay(t)]]
\* Date.prototype.getFullYear, getMonth (zero-based), getDate, getDay
getFullYear(t) == CivilDate[t].year
getMonth(t) == CivilDate[t].month
getDate(t) == CivilDate[t].date
getDay(t) == CivilDate[t].day
\* MakeDay(year, month, date): month may lie outside 0..11, date outside the month
MakeDay(year, month, date) ==
    LET ym == year + (month \div 12)
        mn == month % 12
        leap == IF DaysInYear(ym) = 366 THEN 1 ELSE 0
    IN  DayFromYear(ym) + MonthStart(mn, leap) + date - 1
\* new Date(y, m, d) for a four-digit year, in local time
NewDate(y, m, d) == MakeDay(y, m, d)
\* d.setDate(n): the day n of the month of d, normalised by MakeDay
setDate(t, n) == MakeDay(getFullYear(t), getMonth(t), n)

(***************************************************************************)
(* Strings.                                                                *)
(***************************************************************************)
Digits == <<"0", "1", "2", "3", "4", "5", "6", "7", "8", "9">>
IsDigit(c) == \E i \in 1 .. 10 : Digits[i] = c
DigitValue(c) == (CHOOSE i \in 1 .. 10 : Digits[i] = c) - 1
\* String(n).padStart(2, '0') for n >= 0
PadStart2(n) == IF n < 10 THEN "0" \o ToString(n) ELSE ToString(n)
\* the decimal digits of n >= 0 as typed characters
RECURSIVE IntToChars(_)
IntToChars(n) ==
    IF n < 10 THEN <<Digits[n + 1]>> ELSE IntToChars(n \div 10) \o <<Digits[(n % 10) + 1]>>
\* n as typed characters, zero-padded to at least w places
RECURSIVE PadChars(_, _)
PadChars(s, w) == IF Len(s) >= w THEN s ELSE PadChars(<<"0">> \o s, w)
\* str.split(sep) for a one-character separator
RECURSIVE SplitFrom(_, _, _, _)
SplitFrom(s, sep, i, cur) ==
    IF i > Len(s) THEN <<cur>>
    ELSE IF s[i] = sep THEN <<cur>> \o SplitFrom(s, sep, i + 1, <<>>)
    ELSE SplitFrom(s, sep, i + 1, Append(cur, s[i]))
split(s, sep) == SplitFrom(s, sep, 1, <<>>)
\* the value of a run of decimal digits
RECURSIVE DigitsValue(_)
DigitsValue(s) ==
    IF s = <<>> THEN 0 ELSE 10 * DigitsValue(SubSeq(s, 1, Len(s) - 1)) + DigitValue(s[Len(s)])
\* Number(str): the whole string must be a numeral; the empty string is 0
Number(s) ==
    IF \A i \in 1 .. Len(s) : IsDigit(s[i]) THEN DigitsValue(s) ELSE NaN
\* the longest prefix of s from position i made of digits
RECURSIVE DigitPrefix(_, _)
DigitPrefix(s, i) ==
    IF i <= Len(s) /\ IsDigit(s[i]) THEN <<s[i]>> \o DigitPrefix(s, i + 1) ELSE <<>>
\* parseInt(str): optional sign, then the leading digits; NaN when there are none
parseInt(s) ==
    LET neg == Len(s) >= 1 /\ s[1] = "-"
        start == IF Len(s) >= 1 /\ (s[1] = "-" \/ s[1] = "+") THEN 2 ELSE 1
        ds == DigitPrefix(s, start)
    IN  IF ds = <<>> THEN NaN ELSE IF neg THEN 0 - DigitsValue(ds) ELSE DigitsValue(ds)

(***************************************************************************)
(* The holiday tables.                                                     *)
(***************************************************************************)
holidays ==
    "2025-01-01" :> "Ganjitsu" @@
    "2025-01-13" :> "Seijin no Hi" @@
    "2025-02-11" :> "Kenkoku Kinen no Hi" @@
    "2025-02-23" :> "Tenno Tanjobi" @@
    "2025-02-24" :> "Furikae Kyujitsu" @@
    "2025-03-20" :> "Shunbun no Hi" @@
    "2025-04-29" :> "Showa no Hi" @@
    "2025-05-03" :> "Kenpo Kinenbi" @@
    "2025-05-04" :> "Midori no Hi" @@
    "2025-05-05" :> "Kodomo no Hi" @@
    "2025-05-06" :> "Furikae Kyujitsu" @@
    "2025-07-21" :> "Umi no Hi" @@
    "2025-08-11" :> "Yama no Hi" @@
    "2025-09-15" :> "Keiro no Hi" @@
    "2025-09-23" :> "Shubun no Hi" @@
    "2025-10-13" :> "Sports no Hi" @@
    "2025-11-03" :> "Bunka no Hi" @@
    "2025-11-23" :> "Kinro Kansha no Hi" @@
    "2025-11-24" :> "Furikae Kyujitsu" @@
    "2026-01-01" :> "Ganjitsu" @@
    "2026-01-12" :> "Seijin no Hi" @@
    "2026-02-11" :> "Kenkoku Kinen no Hi" @@
    "2026-02-23" :> "Tenno Tanjobi" @@
    "2026-03-20" :> "Shunbun no Hi" @@
    "2026-04-29" :> "Showa no Hi" @@
    "2026-05-03" :> "Kenpo Kinenbi" @@
    "2026-05-04" :> "Midori no Hi" @@
    "2026-05-05" :> "Kodomo no Hi" @@
    "2026-05-06" :> "Furikae Kyujitsu" @@
    "2026-07-20" :> "Umi no Hi" @@
    "2026-08-11" :> "Yama no Hi" @@
    "2026-09-21" :> "Keiro no Hi" @@
    "2026-09-22" :> "Kokumin no Kyujitsu" @@
    "2026-09-23" :> "Shubun no Hi" @@
    "2026-10-12" :> "Sports no Hi" @@
    "2026-11-03" :> "Bunka no Hi" @@
    "2026-11-23" :> "Kinro Kansha no Hi" @@
    "2027-01-01" :> "Ganjitsu" @@
    "2027-01-11" :> "Seijin no Hi" @@
    "2027-02-11" :> "Kenkoku Kinen no Hi" @@
    "2027-02-23" :> "Tenno Tanjobi" @@
    "2027-03-21" :> "Shunbun no Hi" @@
    "2027-03-22" :> "Furikae Kyujitsu" @@
    "2027-04-29" :> "Showa no Hi" @@
    "2027-05-03" :> "Kenpo Kinenbi" @@
    "2027-05-04" :> "Midori no Hi" @@
    "2027-05-05" :> "Kodomo no Hi" @@
    "2027-07-19" :> "Umi no Hi" @@
    "2027-08-11" :> "Yama no Hi" @@
    "2027-09-20" :> "Keiro no Hi" @@
    "2027-09-23" :> "Shubun no Hi" @@
    "2027-10-11" :> "Sports no Hi" @@
    "2027-11-03" :> "Bunka no Hi" @@
    "2027-11-23" :> "Kinro Kansha no Hi" @@
    "2028-01-01" :> "Ganjitsu" @@
    "2028-01-10" :> "Seijin no Hi" @@
    "2028-02-11" :> "Kenkoku Kinen no Hi" @@
    "2028-02-23" :> "Tenno Tanjobi" @@
    "2028-03-20" :> "Shunbun no Hi" @@
    "2028-04-29" :> "Showa no Hi" @@
    "2028-05-03" :> "Kenpo Kinenbi" @@
    "2028-05-04" :> "Midori no Hi" @@
    "2028-05-05" :> "Kodomo no Hi" @@
    "2028-07-17" :> "Umi no Hi" @@
    "2028-08-11" :> "Yama no Hi" @@
    "2028-09-18" :> "Keiro no Hi" @@
    "2028-09-22" :> "Shubun no Hi"

holidaysPart000 ==
    "2025-01-01" :> "Ganjitsu" @@
    "2025-01-13" :> "Seijin no Hi" @@
    "2025-02-11" :> "Kenkoku Kinen no Hi" @@
    "2025-02-23" :> "Tenno Tanjobi" @@
    "2025-02-24" :> "Furikae Kyujitsu" @@
    "2025-03-20" :> "Shunbun no Hi" @@
    "2025-04-29" :> "Showa no Hi" @@
    "2025-05-03" :> "Kenpo Kinenbi" @@
    "2025-05-04" :> "Midori no Hi" @@
    "2025-05-05" :> "Kodomo no Hi" @@
    "2025-05-06" :> "Furikae Kyujitsu" @@
    "2025-07-21" :> "Umi no Hi" @@
    "2025-08-11" :> "Yama no Hi" @@
    "2025-09-15" :> "Keiro no Hi" @@
    "2025-09-23" :> "Shubun no Hi" @@
    "2025-10-13" :> "Sports no Hi" @@
    "2025-11-03" :> "Bunka no Hi" @@
    "2025-11-23" :> "Kinro Kansha no Hi" @@
    "2025-11-24" :> "Furikae Kyujitsu" @@
    "2026-01-01" :> "Ganjitsu" @@
    "2026-01-12" :> "Seijin no Hi" @@
    "2026-02-11" :> "Kenkoku Kinen no Hi" @@
    "2026-02-23" :> "Tenno Tanjobi" @@
    "2026-03-20" :> "Shunbun no Hi" @@
    "2026-04-29" :> "Showa no Hi" @@
    "2026-05-03" :> "Kenpo Kinenbi" @@
    "2026-05-04" :> "Midori no Hi" @@
    "2026-05-05" :> "Kodomo no Hi" @@
    "2026-05-06" :> "Furikae Kyujitsu" @@
    "2026-07-20" :> "Umi no Hi" @@
    "2026-08-11" :> "Yama no Hi" @@
    "2026-09-21" :> "Keiro no Hi" @@
    "2026-09-22" :> "Kokumin no Kyujitsu" @@
    "2026-09-23" :> "Shubun no Hi" @@
    "2026-10-12" :> "Sports no Hi" @@
    "2026-11-03" :> "Bunka no Hi" @@
    "2026-11-23" :> "Kinro Kansha no Hi"

(***************************************************************************)
(* State.                                                                  *)
(***************************************************************************)
VARIABLES
    pc,                  \* position inside calculateDelivery
    typedDay,            \* the calendar day the user picked in #calc-order-date
    calcOrderDate,       \* value of #calc-order-date (characters)
    calcLeadTime,        \* value of #calc-lead-time (characters)
    leadTime,            \* const leadTime
    orderDate,           \* const orderDate
    businessDate,        \* let businessDate
    businessDays,        \* let businessDays
    holidayAwareDate,    \* let holidayAwareDate
    holidayAwareDays,    \* let holidayAwareDays
    calendarDate,        \* let calendarDate
    businessIters,       \* iterations of the business loop so far
    holidayAwareIters,   \* iterations of the holiday-aware loop so far
    calcResultBusiness,      \* text of #calc-result-business
    calcResultHolidayAware,  \* text of #calc-result-holiday-aware
    calcResultCalendar,      \* text of #calc-result-calendar
    alertMsg,            \* the alert raised by the run, "" when none
    calcMode,            \* value of #calc-mode (part_000)
    utcOffset,           \* minutes the local zone is ahead of UTC (part_000 parse)
    currentDate,         \* let currentDate (part_000)
    calcResult,          \* text of #calc-result (part_000)
    sandProgress,        \* argument of the latest calculateSandHeights call
    sandResult,          \* its return value
    sandWarned,          \* whether it took the console.warn branch
    prevProgress,        \* argument of the call before
    prevResult,          \* return value of the call before
    sandCalls,           \* calls of calculateSandHeights so far, counted up to 2
    holidayTable,        \* the object bound to const holidays
    holidayWarningShown, \* let holidayWarningShown
    now,                 \* the wall clock: milliseconds since local midnight of Today
    WORK_START_HOUR,     \* let WORK_START_HOUR
    WORK_START_MINUTE,   \* let WORK_START_MINUTE
    WORK_END_HOUR,       \* let WORK_END_HOUR
    WORK_END_MINUTE,     \* let WORK_END_MINUTE
    workTimeSettingsItem,    \* localStorage item 'work-time-settings': the saved record, if any
    progressPercent,     \* width of #progress-bar-fill, as a ratio on the grid
    sandTop,             \* height of #sand-top
    sandBottom,          \* height of #sand-bottom
    currentTask,         \* let currentTask
    taskStartTime,       \* let taskStartTime
    taskTimerInterval,   \* let taskTimerInterval
    taskRecordsItem,     \* localStorage item 'task-records'
    intervals,           \* the live setInterval timers: handle and callback
    flipTimeouts,        \* the pending setTimeout callbacks of startCountdownTimer: due times
    countdownInterval,   \* let countdownInterval
    countdownTotalSeconds,       \* let countdownTotalSeconds
    countdownRemainingSeconds,   \* let countdownRemainingSeconds
    countdownStartTime,  \* let countdownStartTime
    notificationSounds,  \* playNotificationSound() calls since the last start accepted
    stoppedInFlipDelay,  \* the stop button was clicked during a flip delay, and start not since
    miniSandTop,         \* height of #mini-sand-top
    miniSandBottom,      \* height of #mini-sand-bottom
    calendarStartOffset, \* let calendarStartOffset
    calendarContainer,   \* what #calendar-container shows: the six months and their holiday cells
    clicks,              \* the buttons of the page clicked so far, the calculator's aside
    lastRun              \* the latest finished run of calculateDelivery that showed results, if any

deliveryVars ==
    <<pc, typedDay, calcOrderDate, calcLeadTime, leadTime, orderDate, businessDate,
      businessDays, holidayAwareDate, holidayAwareDays, calendarDate, businessIters,
      holidayAwareIters, calcResultBusiness, calcResultHolidayAware, calcResultCalendar,
      alertMsg, calcMode, utcOffset, currentDate, calcResult>>
sandVars == <<sandProgress, sandResult, sandWarned, prevProgress, prevResult, sandCalls>>
holidayVars == <<holidayTable, holidayWarningShown>>
workTimeVars ==
    <<WORK_START_HOUR, WORK_START_MINUTE, WORK_END_HOUR, WORK_END_MINUTE, workTimeSettingsItem,
      progressPercent, sandTop, sandBottom>>
taskVars == <<currentTask, taskStartTime, taskTimerInterval, taskRecordsItem>>
countdownVars ==
    <<flipTimeouts, countdownInterval, countdownTotalSeconds, countdownRemainingSeconds,
      countdownStartTime, notificationSounds, stoppedInFlipDelay, miniSandTop,
      miniSandBottom>>
calendarVars == <<calendarStartOffset, calendarContainer>>
pageVars ==
    <<holidayVars, now, workTimeVars, taskVars, intervals, countdownVars, calendarVars, clicks,
      lastRun>>
vars == <<deliveryVars, sandVars, pageVars>>

(***************************************************************************)
(* Holiday lookup.                                                         *)
(***************************************************************************)
\* isHoliday that takes a year the table does not cover for a year of holidays
isHoliday_UncoveredYearIsHoliday(year, month, day) ==
    LET dateStr == ToString(year) \o "-" \o PadStart2(month + 1) \o "-" \o PadStart2(day)
    IN  IF dateStr \in DOMAIN holidayTable THEN holidayTable[dateStr]
        ELSE IF year > 2028 THEN "uncovered" ELSE undefined

\* isHoliday that puts the month it is given into the key as it is
isHoliday_KeyFromZeroBasedMonth(year, month, day) ==
    LET dateStr == ToString(year) \o "-" \o PadStart2(month) \o "-" \o PadStart2(day)
    IN  IF dateStr \in DOMAIN holidayTable THEN holidayTable[dateStr] ELSE undefined

isHoliday(year, month, day) ==
    LET dateStr == ToString(year) \o "-" \o PadStart2(month + 1) \o "-" \o PadStart2(day)
    IN  IF dateStr \in DOMAIN holidayTable THEN holidayTable[dateStr] ELSE undefined

isHolidayPart000(year, month, day) ==
    LET dateStr == ToString(year) \o "-" \o PadStart2(month + 1) \o "-" \o PadStart2(day)
    IN  IF dateStr \in DOMAIN holidaysPart000 THEN holidaysPart000[dateStr] ELSE undefined

(***************************************************************************)
(* calculateDelivery of src/app.js.                                        *)
(***************************************************************************)
dayNames == <<"Sun", "Mon", "Tue", "Wed", "Thu", "Fri", "Sat">>
\* formatResult that reads dayNames as if the week began on Monday
formatResult_MondayFirst(d) ==
    ToString(getMonth(d) + 1) \o "/" \o ToString(getDate(d)) \o "(" \o dayNames[((getDay(d) + 6) % 7) + 1] \o ")"

formatResult(d) ==
    ToString(getMonth(d) + 1) \o "/" \o ToString(getDate(d)) \o "(" \o dayNames[getDay(d) + 1] \o ")"

\* calculateDelivery that turns away only a negative lead time
calculateDelivery_AcceptsZero ==
    /\ pc = "idle"
    /\ LET orderDateStr == calcOrderDate
           lt == parseInt(calcLeadTime)
       IN  /\ leadTime' = lt
           /\ IF orderDateStr = <<>>
              THEN /\ alertMsg' = "select the order date"
                   /\ pc' = "returned"
                   /\ UNCHANGED <<orderDate, businessDate, businessDays>>
              ELSE IF isNaN(lt) \/ lt < 0
              THEN /\ alertMsg' = "enter the lead time"
                   /\ pc' = "returned"
                   /\ UNCHANGED <<orderDate, businessDate, businessDays>>
              ELSE LET parts == split(orderDateStr, "-")
                       y == Number(parts[1])
                       m == Number(parts[2])
                       d == Number(parts[3])
                   IN  /\ orderDate' = NewDate(y, m - 1, d)
                       /\ businessDate' = orderDate'
                       /\ businessDays' = 0
                       /\ pc' = "business"
                       /\ UNCHANGED alertMsg
    /\ UNCHANGED <<typedDay, calcOrderDate, calcLeadTime, holidayAwareDate, holidayAwareDays,
                   calendarDate, businessIters, holidayAwareIters, calcResultBusiness,
                   calcResultHolidayAware, calcResultCalendar, calcMode, utcOffset,
                   currentDate, calcResult>>
    /\ UNCHANGED <<sandVars, pageVars>>

\* the inputs are read and checked, the order date is parsed, the first loop is set up
calculateDelivery ==
    /\ pc = "idle"
    /\ LET orderDateStr == calcOrderDate
           lt == parseInt(calcLeadTime)
       IN  /\ leadTime' = lt
           /\ IF orderDateStr = <<>>
              THEN /\ alertMsg' = "select the order date"
                   /\ pc' = "returned"
                   /\ UNCHANGED <<orderDate, businessDate, businessDays>>
              ELSE IF isNaN(lt) \/ lt = 0 \/ lt < 1
              THEN /\ alertMsg' = "enter the lead time"
                   /\ pc' = "returned"
                   /\ UNCHANGED <<orderDate, businessDate, businessDays>>
              ELSE LET parts == split(orderDateStr, "-")
                       y == Number(parts[1])
                       m == Number(parts[2])
                       d == Number(parts[3])
                   IN  /\ orderDate' = NewDate(y, m - 1, d)
                       /\ businessDate' = orderDate'
                       /\ businessDays' = 0
                       /\ pc' = "business"
                       /\ UNCHANGED alertMsg
    /\ UNCHANGED <<typedDay, calcOrderDate, calcLeadTime, holidayAwareDate, holidayAwareDays,
                   calendarDate, businessIters, holidayAwareIters, calcResultBusiness,
                   calcResultHolidayAware, calcResultCalendar, calcMode, utcOffset,
                   currentDate, calcResult>>
    /\ UNCHANGED <<sandVars, pageVars>>

\* BusinessIteration with the holiday test left out of the condition
BusinessIteration_CountsHolidays ==
    /\ pc = "business"
    /\ businessDays < leadTime
    /\ LET next == setDate(businessDate, getDate(businessDate) + 1)
           dayOfWeek == getDay(next)
       IN  /\ businessDate' = next
           /\ businessDays' =
                  IF dayOfWeek # 0 /\ dayOfWeek # 6 THEN businessDays + 1 ELSE businessDays
    /\ businessIters' = businessIters + 1
    /\ UNCHANGED <<pc, typedDay, calcOrderDate, calcLeadTime, leadTime, orderDate,
                   holidayAwareDate, holidayAwareDays, calendarDate, holidayAwareIters,
                   calcResultBusiness, calcResultHolidayAware, calcResultCalendar,
                   alertMsg, calcMode, utcOffset, currentDate, calcResult>>
    /\ UNCHANGED <<sandVars, pageVars>>

\* BusinessIteration that steps from a Friday straight to the Monday
BusinessIteration_JumpsWeekend ==
    /\ pc = "business"
    /\ businessDays < leadTime
    /\ LET step == IF getDay(businessDate) = 5 THEN 3 ELSE 1
           next == setDate(businessDate, getDate(businessDate) + step)
           dayOfWeek == getDay(next)
           isHol == isHoliday(getFullYear(next), getMonth(next), getDate(next))
       IN  /\ businessDate' = next
           /\ businessDays' =
                  IF dayOfWeek # 0 /\ dayOfWeek # 6 /\ ~Truthy(isHol)
                  THEN businessDays + 1 ELSE businessDays
    /\ businessIters' = businessIters + 1
    /\ UNCHANGED <<pc, typedDay, calcOrderDate, calcLeadTime, leadTime, orderDate,
                   holidayAwareDate, holidayAwareDays, calendarDate, holidayAwareIters,
                   calcResultBusiness, calcResultHolidayAware, calcResultCalendar,
                   alertMsg, calcMode, utcOffset, currentDate, calcResult>>
    /\ UNCHANGED <<sandVars, pageVars>>

\* BusinessIteration that takes Sunday for a working day
BusinessIteration_SundayIsWorkday ==
    /\ pc = "business"
    /\ businessDays < leadTime
    /\ LET next == setDate(businessDate, getDate(businessDate) + 1)
           dayOfWeek == getDay(next)
           isHol == isHoliday(getFullYear(next), getMonth(next), getDate(next))
       IN  /\ businessDate' = next
           /\ businessDays' =
                  IF dayOfWeek # 6 /\ ~Truthy(isHol)
                  THEN businessDays + 1 ELSE businessDays
    /\ businessIters' = businessIters + 1
    /\ UNCHANGED <<pc, typedDay, calcOrderDate, calcLeadTime, leadTime, orderDate,
                   holidayAwareDate, holidayAwareDays, calendarDate, holidayAwareIters,
                   calcResultBusiness, calcResultHolidayAware, calcResultCalendar,
                   alertMsg, calcMode, utcOffset, currentDate, calcResult>>
    /\ UNCHANGED <<sandVars, pageVars>>

\* BusinessIteration on a businessDate that is the order date's own Date object
BusinessIteration_StepsOrderDate ==
    /\ pc = "business"
    /\ businessDays < leadTime
    /\ LET next == setDate(businessDate, getDate(businessDate) + 1)
           dayOfWeek == getDay(next)
           isHol == isHoliday(getFullYear(next), getMonth(next), getDate(next))
       IN  /\ businessDate' = next
           /\ orderDate' = next
           /\ businessDays' =
                  IF dayOfWeek # 0 /\ dayOfWeek # 6 /\ ~Truthy(isHol)
                  THEN businessDays + 1 ELSE businessDays
    /\ businessIters' = businessIters + 1
    /\ UNCHANGED <<pc, typedDay, calcOrderDate, calcLeadTime, leadTime,
                   holidayAwareDate, holidayAwareDays, calendarDate, holidayAwareIters,
                   calcResultBusiness, calcResultHolidayAware, calcResultCalendar,
                   alertMsg, calcMode, utcOffset, currentDate, calcResult>>
    /\ UNCHANGED <<sandVars, pageVars>>

\* one iteration of while (businessDays < leadTime)
BusinessIteration ==
    /\ pc = "business"
    /\ businessDays < leadTime
    /\ LET next == setDate(businessDate, getDate(businessDate) + 1)
           dayOfWeek == getDay(next)
           isHol == isHoliday(getFullYear(next), getMonth(next), getDate(next))
       IN  /\ businessDate' = next
           /\ businessDays' =
                  IF dayOfWeek # 0 /\ dayOfWeek # 6 /\ ~Truthy(isHol)
                  THEN businessDays + 1 ELSE businessDays
    /\ businessIters' = businessIters + 1
    /\ UNCHANGED <<pc, typedDay, calcOrderDate, calcLeadTime, leadTime, orderDate,
                   holidayAwareDate, holidayAwareDays, calendarDate, holidayAwareIters,
                   calcResultBusiness, calcResultHolidayAware, calcResultCalendar,
                   alertMsg, calcMode, utcOffset, currentDate, calcResult>>
    /\ UNCHANGED <<sandVars, pageVars>>

\* the business loop ends; the holiday-aware loop is set up
BusinessExit ==
    /\ pc = "business"
    /\ ~(businessDays < leadTime)
    /\ holidayAwareDate' = orderDate
    /\ holidayAwareDays' = 0
    /\ pc' = "holidayAware"
    /\ UNCHANGED <<typedDay, calcOrderDate, calcLeadTime, leadTime, orderDate, businessDate,
                   businessDays, calendarDate, businessIters, holidayAwareIters,
                   calcResultBusiness, calcResultHolidayAware, calcResultCalendar,
                   alertMsg, calcMode, utcOffset, currentDate, calcResult>>
    /\ UNCHANGED <<sandVars, pageVars>>

\* HolidayAwareIteration with the weekend test of the business loop copied in
HolidayAwareIteration_SkipsWeekends ==
    /\ pc = "holidayAware"
    /\ holidayAwareDays < leadTime
    /\ LET next == setDate(holidayAwareDate, getDate(holidayAwareDate) + 1)
           dayOfWeek == getDay(next)
           isHol == isHoliday(getFullYear(next), getMonth(next), getDate(next))
       IN  /\ holidayAwareDate' = next
           /\ holidayAwareDays' =
                  IF dayOfWeek # 0 /\ dayOfWeek # 6 /\ ~Truthy(isHol)
                  THEN holidayAwareDays + 1 ELSE holidayAwareDays
    /\ holidayAwareIters' = holidayAwareIters + 1
    /\ UNCHANGED <<pc, typedDay, calcOrderDate, calcLeadTime, leadTime, orderDate,
                   businessDate, businessDays, calendarDate, businessIters,
                   calcResultBusiness, calcResultHolidayAware, calcResultCalendar,
                   alertMsg, calcMode, utcOffset, currentDate, calcResult>>
    /\ UNCHANGED <<sandVars, pageVars>>

\* HolidayAwareIteration that counts every day, holidays included
HolidayAwareIteration_CountsHolidays ==
    /\ pc = "holidayAware"
    /\ holidayAwareDays < leadTime
    /\ LET next == setDate(holidayAwareDate, getDate(holidayAwareDate) + 1)
       IN  /\ holidayAwareDate' = next
           /\ holidayAwareDays' = holidayAwareDays + 1
    /\ holidayAwareIters' = holidayAwareIters + 1
    /\ UNCHANGED <<pc, typedDay, calcOrderDate, calcLeadTime, leadTime, orderDate,
                   businessDate, businessDays, calendarDate, businessIters,
                   calcResultBusiness, calcResultHolidayAware, calcResultCalendar,
                   alertMsg, calcMode, utcOffset, currentDate, calcResult>>
    /\ UNCHANGED <<sandVars, pageVars>>

\* one iteration of while (holidayAwareDays < leadTime)
HolidayAwareIteration ==
    /\ pc = "holidayAware"
    /\ holidayAwareDays < leadTime
    /\ LET next == setDate(holidayAwareDate, getDate(holidayAwareDate) + 1)
           isHol == isHoliday(getFullYear(next), getMonth(next), getDate(next))
       IN  /\ holidayAwareDate' = next
           /\ holidayAwareDays' =
                  IF ~Truthy(isHol) THEN holidayAwareDays + 1 ELSE holidayAwareDays
    /\ holidayAwareIters' = holidayAwareIters + 1
    /\ UNCHANGED <<pc, typedDay, calcOrderDate, calcLeadTime, leadTime, orderDate,
                   businessDate, businessDays, calendarDate, businessIters,
                   calcResultBusiness, calcResultHolidayAware, calcResultCalendar,
                   alertMsg, calcMode, utcOffset, currentDate, calcResult>>
    /\ UNCHANGED <<sandVars, pageVars>>

\* CalendarAndDisplay with calendarDate.setDate(leadTime): the day of the month is
\* set to the lead time instead of being advanced by it
CalendarAndDisplay_SetsDayOfMonth ==
    /\ pc = "holidayAware"
    /\ ~(holidayAwareDays < leadTime)
    /\ calendarDate' = setDate(orderDate, leadTime)
    /\ calcResultBusiness' = formatResult(businessDate)
    /\ calcResultHolidayAware' = formatResult(holidayAwareDate)
    /\ calcResultCalendar' = formatResult(calendarDate')
    /\ pc' = "returned"
    /\ UNCHANGED <<typedDay, calcOrderDate, calcLeadTime, leadTime, orderDate, businessDate,
                   businessDays, holidayAwareDate, holidayAwareDays, businessIters,
                   holidayAwareIters, alertMsg, calcMode, utcOffset, currentDate, calcResult>>
    /\ UNCHANGED <<sandVars, pageVars>>

\* CalendarAndDisplay that counts the calendar days from the month the calendar shows
CalendarAndDisplay_AddsCalendarOffset ==
    /\ pc = "holidayAware"
    /\ ~(holidayAwareDays < leadTime)
    /\ calendarDate' = setDate(orderDate, getDate(orderDate) + leadTime + calendarStartOffset)
    /\ calcResultBusiness' = formatResult(businessDate)
    /\ calcResultHolidayAware' = formatResult(holidayAwareDate)
    /\ calcResultCalendar' = formatResult(calendarDate')
    /\ pc' = "returned"
    /\ UNCHANGED <<typedDay, calcOrderDate, calcLeadTime, leadTime, orderDate, businessDate,
                   businessDays, holidayAwareDate, holidayAwareDays, businessIters,
                   holidayAwareIters, alertMsg, calcMode, utcOffset, currentDate, calcResult>>
    /\ UNCHANGED <<sandVars, pageVars>>

\* CalendarAndDisplay that counts the order date as the first calendar day
CalendarAndDisplay_CountsOrderDay ==
    /\ pc = "holidayAware"
    /\ ~(holidayAwareDays < leadTime)
    /\ calendarDate' = setDate(orderDate, getDate(orderDate) + leadTime - 1)
    /\ calcResultBusiness' = formatResult(businessDate)
    /\ calcResultHolidayAware' = formatResult(holidayAwareDate)
    /\ calcResultCalendar' = formatResult(calendarDate')
    /\ pc' = "returned"
    /\ UNCHANGED <<typedDay, calcOrderDate, calcLeadTime, leadTime, orderDate, businessDate,
                   businessDays, holidayAwareDate, holidayAwareDays, businessIters,
                   holidayAwareIters, alertMsg, calcMode, utcOffset, currentDate, calcResult>>
    /\ UNCHANGED <<sandVars, pageVars>>

\* the holiday-aware loop ends; the calendar date is computed and all three are shown
CalendarAndDisplay ==
    /\ pc = "holidayAware"
    /\ ~(holidayAwareDays < leadTime)
    /\ calendarDate' = setDate(orderDate, getDate(orderDate) + leadTime)
    /\ calcResultBusiness' = formatResult(businessDate)
    /\ calcResultHolidayAware' = formatResult(holidayAwareDate)
    /\ calcResultCalendar' = formatResult(calendarDate')
    /\ pc' = "returned"
    /\ UNCHANGED <<typedDay, calcOrderDate, calcLeadTime, leadTime, orderDate, businessDate,
                   businessDays, holidayAwareDate, holidayAwareDays, businessIters,
                   holidayAwareIters, alertMsg, calcMode, utcOffset, currentDate, calcResult>>
    /\ UNCHANGED <<sandVars, pageVars>>

(***************************************************************************)
(* calculateDelivery of src/unnamed/part_000: one mode per run, the order  *)
(* date string handed to the Date constructor.                             *)
(***************************************************************************)
MinutesPerDay == 24 * 60
UtcOffsets == {0 - 300, 0, 540}
CalcModes == {"business", "calendar"}

\* new Date('YYYY-MM-DD'): midnight UTC of that day, seen as a local day
NewDateFromString(s, offset) ==
    LET parts == split(s, "-")
        utcDay == MakeDay(Number(parts[1]), Number(parts[2]) - 1, Number(parts[3]))
    IN  (utcDay * MinutesPerDay + offset) \div MinutesPerDay

\* while (businessDays < leadTime) of part_000, run to its end
RECURSIVE BusinessLoopPart000(_, _, _)
BusinessLoopPart000(date, days, lt) ==
    IF days < lt
    THEN LET next == setDate(date, getDate(date) + 1)
             dayOfWeek == getDay(next)
             isHol == isHolidayPart000(getFullYear(next), getMonth(next), getDate(next))
         IN  IF dayOfWeek # 0 /\ dayOfWeek # 6 /\ ~Truthy(isHol)
             THEN BusinessLoopPart000(next, days + 1, lt)
             ELSE BusinessLoopPart000(next, days, lt)
    ELSE date

calculateDeliveryPart000 ==
    /\ pc = "idle"
    /\ \E mode \in CalcModes, offset \in UtcOffsets :
        /\ calcMode' = mode
        /\ utcOffset' = offset
        /\ LET orderDateStr == calcOrderDate
               lt == parseInt(calcLeadTime)
           IN  /\ leadTime' = lt
               /\ IF orderDateStr = <<>>
                  THEN /\ alertMsg' = "select the order date"
                       /\ UNCHANGED <<orderDate, currentDate, calcResult>>
                  ELSE IF isNaN(lt) \/ lt = 0 \/ lt < 1
                  THEN /\ alertMsg' = "enter the lead time"
                       /\ UNCHANGED <<orderDate, currentDate, calcResult>>
                  ELSE /\ orderDate' = NewDateFromString(orderDateStr, offset)
                       /\ currentDate' =
                              IF mode = "business"
                              THEN BusinessLoopPart000(orderDate', 0, lt)
                              ELSE setDate(orderDate', getDate(orderDate') + lt)
                       /\ calcResult' =
                              "-> " \o ToString(getMonth(currentDate') + 1) \o "/"
                                    \o ToString(getDate(currentDate'))
                                    \o "(" \o dayNames[getDay(currentDate') + 1] \o ")"
                       /\ UNCHANGED alertMsg
    /\ pc' = "returnedPart000"
    /\ UNCHANGED <<typedDay, calcOrderDate, calcLeadTime, businessDate, businessDays,
                   holidayAwareDate, holidayAwareDays, calendarDate, businessIters,
                   holidayAwareIters, calcResultBusiness, calcResultHolidayAware,
                   calcResultCalendar>>
    /\ UNCHANGED <<sandVars, pageVars>>

(***************************************************************************)
(* SandPhysicsEngine.                                                      *)
(*                                                                         *)
(* A progress or a volume x is held as the integer x * Den.  A height h is *)
(* held as the integer h^10 * Den^7: Math.pow(v, 0.7) is the real number h *)
(* with h^10 = v^7, so the height of the volume k/Den is held as k^7,      *)
(* exactly.  The encoding is strictly increasing, so order and equality of *)
(* heights are those of the real numbers.  NaN is held as NaN.             *)
(***************************************************************************)
\* this.VOLUME_CURVE_EXPONENT = 0.7, as the fraction 7/10
VOLUME_CURVE_EXPONENT_NUM == 7
VOLUME_CURVE_EXPONENT_DEN == 10

RECURSIVE IntPow(_, _)
IntPow(b, e) == IF e = 0 THEN 1 ELSE b * IntPow(b, e - 1)

\* the volume 1.0 and the heights 0 and 1
One == Den
HeightZero == 0
HeightOne == IntPow(Den, VOLUME_CURVE_EXPONENT_NUM)

Math_min(a, b) == IF isNaN(a) \/ isNaN(b) THEN NaN ELSE IF a < b THEN a ELSE b
Math_max(a, b) == IF isNaN(a) \/ isNaN(b) THEN NaN ELSE IF a > b THEN a ELSE b
Math_abs(a) == IF isNaN(a) THEN NaN ELSE IF a < 0 THEN 0 - a ELSE a
Minus(a, b) == IF isNaN(a) \/ isNaN(b) THEN NaN ELSE a - b
Plus(a, b) == IF isNaN(a) \/ isNaN(b) THEN NaN ELSE a + b
\* Math.pow(volume, this.VOLUME_CURVE_EXPONENT), as a height; NaN for a negative base
Math_pow(volume) ==
    IF isNaN(volume) \/ volume < 0 THEN NaN ELSE IntPow(volume, VOLUME_CURVE_EXPONENT_NUM)
\* x > this.EPSILON for a volume difference x: EPSILON = 1e-10 is below the grid
\* step 1/Den, so a difference on the grid exceeds it exactly when it is not zero
ExceedsEPSILON(x) == ~isNaN(x) /\ x >= 1

\* volumeToHeight that returns 0 for a full chamber
volumeToHeight_FullIsEmpty(volume, type) ==
    IF ~isNaN(volume) /\ volume <= 0 THEN HeightZero
    ELSE IF ~isNaN(volume) /\ volume >= One THEN HeightZero
    ELSE IF type = "lower" THEN Math_pow(volume)
    ELSE Math_pow(volume)

\* volumeToHeight whose 'upper' branch takes the height of the emptied part
volumeToHeight_UpperFromComplement(volume, type) ==
    IF ~isNaN(volume) /\ volume <= 0 THEN HeightZero
    ELSE IF ~isNaN(volume) /\ volume >= One THEN HeightOne
    ELSE IF type = "lower" THEN Math_pow(volume)
    ELSE Math_pow(Minus(One, volume))

volumeToHeight(volume, type) ==
    IF ~isNaN(volume) /\ volume <= 0 THEN HeightZero
    ELSE IF ~isNaN(volume) /\ volume >= One THEN HeightOne
    ELSE IF type = "lower" THEN Math_pow(volume)
    ELSE Math_pow(volume)

\* calculateSandHeights with upperVolume taken from the unclamped progress
calculateSandHeights_UpperFromProgress(progress) ==
    LET lowerVolume == Math_max(0, Math_min(One, progress))
        upperVolume == Minus(One, progress)
        upperHeight == volumeToHeight(upperVolume, "upper")
        lowerHeight == volumeToHeight(lowerVolume, "lower")
    IN  [upperHeight |-> upperHeight, lowerHeight |-> lowerHeight,
         upperVolume |-> upperVolume, lowerVolume |-> lowerVolume]

\* calculateSandHeights without the lower clamp: Math.min(1, progress) only
calculateSandHeights_NoLowerClamp(progress) ==
    LET lowerVolume == Math_min(One, progress)
        upperVolume == Minus(One, lowerVolume)
        upperHeight == volumeToHeight(upperVolume, "upper")
        lowerHeight == volumeToHeight(lowerVolume, "lower")
    IN  [upperHeight |-> upperHeight, lowerHeight |-> lowerHeight,
         upperVolume |-> upperVolume, lowerVolume |-> lowerVolume]

\* calculateSandHeights with the two heights taken from the wrong volumes
calculateSandHeights_HeightsSwapped(progress) ==
    LET lowerVolume == Math_max(0, Math_min(One, progress))
        upperVolume == Minus(One, lowerVolume)
        upperHeight == volumeToHeight(lowerVolume, "upper")
        lowerHeight == volumeToHeight(upperVolume, "lower")
    IN  [upperHeight |-> upperHeight, lowerHeight |-> lowerHeight,
         upperVolume |-> upperVolume, lowerVolume |-> lowerVolume]

\* calculateSandHeights as the callers' fallback does it: no clamp, the power taken
\* directly of the ratio and of its complement
calculateSandHeights_Unclamped(progress) ==
    LET lowerVolume == progress
        upperVolume == Minus(One, lowerVolume)
        upperHeight == Math_pow(upperVolume)
        lowerHeight == Math_pow(lowerVolume)
    IN  [upperHeight |-> upperHeight, lowerHeight |-> lowerHeight,
         upperVolume |-> upperVolume, lowerVolume |-> lowerVolume]

\* calculateSandHeights that takes a progress that is not a number for 0
calculateSandHeights_GuardsNaN(progress) ==
    LET lowerVolume == IF isNaN(progress) THEN 0 ELSE Math_max(0, Math_min(One, progress))
        upperVolume == Minus(One, lowerVolume)
        upperHeight == volumeToHeight(upperVolume, "upper")
        lowerHeight == volumeToHeight(lowerVolume, "lower")
    IN  [upperHeight |-> upperHeight, lowerHeight |-> lowerHeight,
         upperVolume |-> upperVolume, lowerVolume |-> lowerVolume]

calculateSandHeights(progress) ==
    LET lowerVolume == Math_max(0, Math_min(One, progress))
        upperVolume == Minus(One, lowerVolume)
        upperHeight == volumeToHeight(upperVolume, "upper")
        lowerHeight == volumeToHeight(lowerVolume, "lower")
    IN  [upperHeight |-> upperHeight, lowerHeight |-> lowerHeight,
         upperVolume |-> upperVolume, lowerVolume |-> lowerVolume]

\* whether calculateSandHeights(progress) takes its console.warn branch
massWarning(progress) ==
    LET r == calculateSandHeights(progress)
        totalVolume == Plus(r.upperVolume, r.lowerVolume)
    IN  ExceedsEPSILON(Math_abs(Minus(totalVolume, One)))

\* the progress values handed to the engine: the grid, some way outside [0,1], and NaN
ProgressValues == ((0 - Over) .. (Den + Over)) \cup {NaN}
NoResult == [upperHeight |-> NaN, lowerHeight |-> NaN, upperVolume |-> NaN, lowerVolume |-> NaN]

\* a caller (clock tick, countdown tick) runs physics.calculateSandHeights(progressRatio)
CallCalculateSandHeights ==
    /\ \E progress \in ProgressValues :
        /\ sandProgress' = progress
        /\ sandResult' = calculateSandHeights(progress)
        /\ sandWarned' = massWarning(progress)
    /\ prevProgress' = sandProgress
    /\ prevResult' = sandResult
    /\ sandCalls' = IF sandCalls < 2 THEN sandCalls + 1 ELSE sandCalls
    /\ UNCHANGED <<deliveryVars, pageVars>>

(***************************************************************************)
(* The page around the calculator: the clock, the working day, the task    *)
(* record, the countdown and the six-month calendar.  The page runs one    *)
(* handler at a time, each to its end, so a handler is one action and it   *)
(* starts only while calculateDelivery is not in progress.                 *)
(***************************************************************************)
\* null where a task name is held, and null where a time or a timer handle is held
null == "null"
nullNumber == 0 - 1
\* no handler is in progress
Quiescent == pc \in {"idle", "returned"}

\* the day the page is open on, and the instants at which the clock is read
Today == MakeDay(2026, 11, 1)
HMS(h, m, s) == ((h * 60 + m) * 60 + s) * 1000
Instants == {HMS(8, 0, 0), HMS(13, 0, 0), HMS(13, 0, 30), HMS(13, 1, 0)}
getHours(t) == t \div 3600000
getMinutes(t) == (t \div 60000) % 60
getSeconds(t) == (t \div 1000) % 60

\* a / b as a ratio held to the resolution of the grid; 0 / 0 is NaN, and no other
\* division by zero arises in the two callers
Ratio(a, b) == IF isNaN(a) \/ isNaN(b) \/ b = 0 THEN NaN ELSE (a * Den) \div b

\* a setTimeout callback runs when it is due: before the clock moves on, and before a
\* click made after its due time
NoTimeoutDue == IF flipTimeouts = <<>> THEN TRUE ELSE now < Head(flipTimeouts)

\* time passes
TimePasses ==
    /\ Quiescent
    /\ NoTimeoutDue
    /\ \E t \in Instants : t > now /\ now' = t
    /\ UNCHANGED <<deliveryVars, sandVars, holidayVars, workTimeVars, taskVars, intervals,
                   countdownVars, calendarVars, clicks, lastRun>>

(***************************************************************************)
(* The working day.                                                        *)
(***************************************************************************)
HOLIDAY_DATA_MAX_YEAR == 2028

\* what updateWorkTimeDisplay shows at the instant t under the given settings
WorkTimeDisplay(t, startHour, startMinute, endHour, endMinute) ==
    LET currentSeconds == getHours(t) * 3600 + getMinutes(t) * 60 + getSeconds(t)
        workStartSeconds == startHour * 3600 + startMinute * 60
        workEndSeconds == endHour * 3600 + endMinute * 60
        totalWorkSeconds == workEndSeconds - workStartSeconds
        elapsedSeconds ==
            IF currentSeconds < workStartSeconds THEN 0
            ELSE IF currentSeconds > workEndSeconds THEN totalWorkSeconds
            ELSE currentSeconds - workStartSeconds
        remainingSeconds ==
            IF currentSeconds < workStartSeconds THEN totalWorkSeconds
            ELSE IF currentSeconds > workEndSeconds THEN 0
            ELSE workEndSeconds - currentSeconds
        progressRatio ==
            IF currentSeconds < workStartSeconds THEN 0
            ELSE IF currentSeconds > workEndSeconds THEN One
            ELSE Ratio(currentSeconds - workStartSeconds, totalWorkSeconds)
        result == calculateSandHeights(progressRatio)
    IN  [progressPercent |-> progressRatio,
         elapsedSeconds |-> elapsedSeconds,
         remainingSeconds |-> remainingSeconds,
         totalWorkSeconds |-> totalWorkSeconds,
         sandTop |-> result.upperHeight,
         sandBottom |-> result.lowerHeight]

\* the tick of setInterval(updateClock, 1000)
updateWorkTimeDisplay ==
    /\ Quiescent
    /\ LET shown == WorkTimeDisplay(now, WORK_START_HOUR, WORK_START_MINUTE,
                                    WORK_END_HOUR, WORK_END_MINUTE)
       IN  /\ progressPercent' = shown.progressPercent
           /\ sandTop' = shown.sandTop
           /\ sandBottom' = shown.sandBottom
    /\ UNCHANGED <<WORK_START_HOUR, WORK_START_MINUTE, WORK_END_HOUR, WORK_END_MINUTE,
                   workTimeSettingsItem>>
    /\ UNCHANGED <<deliveryVars, sandVars, holidayVars, now, taskVars, intervals,
                   countdownVars, calendarVars, clicks, lastRun>>

\* what may be typed into #work-start-time and #work-end-time
WorkTimeInputs ==
    {<<<<"0", "9", ":", "0", "0">>, <<"1", "8", ":", "0", "0">>>>,
     <<<<"0", "8", ":", "3", "0">>, <<"1", "7", ":", "3", "0">>>>,
     <<<<"1", "7", ":", "3", "0">>, <<"0", "8", ":", "3", "0">>>>,
     <<<<>>, <<"1", "7", ":", "3", "0">>>>}

\* updateWorkTimeSettings() with the two fields holding what was typed
updateWorkTimeSettingsTyped(typed) ==
    LET startTime == typed[1]
        endTime == typed[2]
    IN  IF startTime = <<>> \/ endTime = <<>>
        THEN UNCHANGED workTimeVars
        ELSE LET startHour == Number(split(startTime, ":")[1])
                 startMinute == Number(split(startTime, ":")[2])
                 endHour == Number(split(endTime, ":")[1])
                 endMinute == Number(split(endTime, ":")[2])
                 startMinutes == startHour * 60 + startMinute
                 endMinutes == endHour * 60 + endMinute
                 shown == WorkTimeDisplay(now, startHour, startMinute, endHour, endMinute)
             IN  IF startMinutes >= endMinutes
                 THEN UNCHANGED workTimeVars
                 ELSE /\ WORK_START_HOUR' = startHour
                      /\ WORK_START_MINUTE' = startMinute
                      /\ WORK_END_HOUR' = endHour
                      /\ WORK_END_MINUTE' = endMinute
                      /\ workTimeSettingsItem' =
                             {[startHour |-> startHour, startMinute |-> startMinute,
                               endHour |-> endHour, endMinute |-> endMinute]}
                      /\ progressPercent' = shown.progressPercent
                      /\ sandTop' = shown.sandTop
                      /\ sandBottom' = shown.sandBottom

\* the two fields are filled in and the update button is clicked
updateWorkTimeSettings ==
    /\ Quiescent
    /\ clicks < MaxClicks
    /\ NoTimeoutDue
    /\ clicks' = clicks + 1
    /\ \E typed \in WorkTimeInputs : updateWorkTimeSettingsTyped(typed)
    /\ UNCHANGED <<deliveryVars, sandVars, holidayVars, now, taskVars, intervals,
                   countdownVars, calendarVars, lastRun>>

(***************************************************************************)
(* The six-month calendar.                                                 *)
(***************************************************************************)
\* the month renderSingleMonth draws: its days whose cell gets the class 'holiday'
renderSingleMonth(year, month) ==
    LET lastDay == NewDate(year, month + 1, 0)
    IN  [year |-> year,
         month |-> month,
         holiday |-> {day \in 1 .. getDate(lastDay) : Truthy(isHoliday(year, month, day))}]

\* the six months renderSixMonthCalendar draws for the given offset
renderSixMonthCalendar(offset) ==
    [i \in 0 .. 5 |->
        LET year == getFullYear(Today)
            month == getMonth(Today) + offset + i
            adjustedDate == NewDate(year, month, 1)
        IN  renderSingleMonth(getFullYear(adjustedDate), getMonth(adjustedDate))]

nextMonths ==
    /\ Quiescent
    /\ clicks < MaxClicks
    /\ NoTimeoutDue
    /\ clicks' = clicks + 1
    /\ calendarStartOffset' = calendarStartOffset + 6
    /\ calendarContainer' = renderSixMonthCalendar(calendarStartOffset')
    /\ UNCHANGED <<deliveryVars, sandVars, holidayVars, now, workTimeVars, taskVars,
                   intervals, countdownVars, lastRun>>

previousMonths ==
    /\ Quiescent
    /\ clicks < MaxClicks
    /\ NoTimeoutDue
    /\ clicks' = clicks + 1
    /\ calendarStartOffset' = calendarStartOffset - 6
    /\ calendarContainer' = renderSixMonthCalendar(calendarStartOffset')
    /\ UNCHANGED <<deliveryVars, sandVars, holidayVars, now, workTimeVars, taskVars,
                   intervals, countdownVars, lastRun>>

resetToCurrentMonth ==
    /\ Quiescent
    /\ clicks < MaxClicks
    /\ NoTimeoutDue
    /\ clicks' = clicks + 1
    /\ calendarStartOffset' = 0
    /\ calendarContainer' = renderSixMonthCalendar(calendarStartOffset')
    /\ UNCHANGED <<deliveryVars, sandVars, holidayVars, now, workTimeVars, taskVars,
                   intervals, countdownVars, lastRun>>

\* the files read by importAllSettings: the saved working day, if the file has one,
\* and the saved task records.  A file is whatever the user picks: one written by the
\* export, one without a working day, one whose working day ends before it starts, one
\* whose working day starts and ends at the same minute
ImportFiles ==
    {[workTimeSettings |-> {[startHour |-> 9, startMinute |-> 0, endHour |-> 18,
                             endMinute |-> 0]},
      taskRecords |-> <<>>],
     [workTimeSettings |-> {}, taskRecords |-> <<>>],
     [workTimeSettings |-> {[startHour |-> 18, startMinute |-> 0, endHour |-> 9,
                             endMinute |-> 0]},
      taskRecords |-> <<>>],
     [workTimeSettings |-> {[startHour |-> 13, startMinute |-> 0, endHour |-> 13,
                             endMinute |-> 0]},
      taskRecords |-> <<>>]}

\* importAllSettings that also takes a holiday from the file
importAllSettings_ImportsHoliday ==
    /\ Quiescent
    /\ clicks < MaxClicks
    /\ NoTimeoutDue
    /\ clicks' = clicks + 1
    /\ \E file \in ImportFiles :
        /\ IF file.workTimeSettings # {}
           THEN LET settings == CHOOSE s \in file.workTimeSettings : TRUE
                IN  /\ workTimeSettingsItem' = file.workTimeSettings
                    /\ WORK_START_HOUR' = settings.startHour
                    /\ WORK_START_MINUTE' = settings.startMinute
                    /\ WORK_END_HOUR' = settings.endHour
                    /\ WORK_END_MINUTE' = settings.endMinute
           ELSE UNCHANGED <<WORK_START_HOUR, WORK_START_MINUTE, WORK_END_HOUR,
                            WORK_END_MINUTE, workTimeSettingsItem>>
        /\ taskRecordsItem' = file.taskRecords
    /\ holidayTable' = ("2026-12-30" :> "company holiday") @@ holidayTable
    /\ calendarContainer' = renderSixMonthCalendar(calendarStartOffset)
    /\ UNCHANGED <<progressPercent, sandTop, sandBottom, currentTask, taskStartTime,
                   taskTimerInterval, calendarStartOffset, holidayWarningShown>>
    /\ UNCHANGED <<deliveryVars, sandVars, now, intervals, countdownVars, lastRun>>

\* reader.onload of importAllSettings
importAllSettings ==
    /\ Quiescent
    /\ clicks < MaxClicks
    /\ NoTimeoutDue
    /\ clicks' = clicks + 1
    /\ \E file \in ImportFiles :
        /\ IF file.workTimeSettings # {}
           THEN LET settings == CHOOSE s \in file.workTimeSettings : TRUE
                IN  /\ workTimeSettingsItem' = file.workTimeSettings
                    /\ WORK_START_HOUR' = settings.startHour
                    /\ WORK_START_MINUTE' = settings.startMinute
                    /\ WORK_END_HOUR' = settings.endHour
                    /\ WORK_END_MINUTE' = settings.endMinute
           ELSE UNCHANGED <<WORK_START_HOUR, WORK_START_MINUTE, WORK_END_HOUR,
                            WORK_END_MINUTE, workTimeSettingsItem>>
        /\ taskRecordsItem' = file.taskRecords
    /\ calendarContainer' = renderSixMonthCalendar(calendarStartOffset)
    /\ UNCHANGED <<progressPercent, sandTop, sandBottom, currentTask, taskStartTime,
                   taskTimerInterval, calendarStartOffset>>
    /\ UNCHANGED <<deliveryVars, sandVars, holidayVars, now, intervals, countdownVars, lastRun>>

(***************************************************************************)
(* Timers.                                                                 *)
(***************************************************************************)
\* setInterval hands out a handle no live timer has; clearInterval removes one
FreshHandle(live) == CHOOSE h \in 1 .. (Cardinality(live) + 1) : \A i \in live : i.id # h
clearInterval(live, h) == {i \in live : i.id # h}
CountdownTimers == {i \in intervals : i.fn = "updateCountdownTimer"}

(***************************************************************************)
(* The task record.                                                        *)
(***************************************************************************)
TaskNames == {"mitsumori gyomu", "hacchu gyomu"}

\* the records stopTask saves: the running task put in front
StoppedRecords ==
    <<[task |-> currentTask, startTime |-> taskStartTime, endTime |-> now,
       duration |-> (now - taskStartTime) \div 1000]>> \o taskRecordsItem

\* stopTask that forgets clearInterval
stopTask_LeavesTimer ==
    /\ Quiescent
    /\ clicks < MaxClicks
    /\ NoTimeoutDue
    /\ clicks' = clicks + 1
    /\ IF currentTask = null
       THEN UNCHANGED <<taskVars, intervals>>
       ELSE /\ taskRecordsItem' = StoppedRecords
            /\ currentTask' = null
            /\ taskStartTime' = nullNumber
            /\ intervals' = intervals
            /\ taskTimerInterval' = nullNumber
    /\ UNCHANGED <<deliveryVars, sandVars, holidayVars, now, workTimeVars, countdownVars,
                   calendarVars, lastRun>>

\* stopTask(), called from a button or from the console
stopTask ==
    /\ Quiescent
    /\ clicks < MaxClicks
    /\ NoTimeoutDue
    /\ clicks' = clicks + 1
    /\ IF currentTask = null
       THEN UNCHANGED <<taskVars, intervals>>
       ELSE /\ taskRecordsItem' = StoppedRecords
            /\ currentTask' = null
            /\ taskStartTime' = nullNumber
            /\ intervals' = clearInterval(intervals, taskTimerInterval)
            /\ taskTimerInterval' = nullNumber
    /\ UNCHANGED <<deliveryVars, sandVars, holidayVars, now, workTimeVars, countdownVars,
                   calendarVars, lastRun>>

\* quickStartTask that starts the new task over a running one without stopping it
quickStartTaskNamed_SkipsStop(taskName) ==
    IF currentTask = taskName
    THEN /\ taskRecordsItem' = StoppedRecords
         /\ currentTask' = null
         /\ taskStartTime' = nullNumber
         /\ intervals' = clearInterval(intervals, taskTimerInterval)
         /\ taskTimerInterval' = nullNumber
    ELSE LET cleared == clearInterval(intervals, taskTimerInterval)
             handle == FreshHandle(cleared)
         IN  /\ taskRecordsItem' = taskRecordsItem
             /\ currentTask' = taskName
             /\ taskStartTime' = now
             /\ intervals' = cleared \cup {[id |-> handle, fn |-> "updateTaskTimer"]}
             /\ taskTimerInterval' = handle

\* quickStartTask(taskName): stopTask and startTaskWithName as the code calls them
quickStartTaskNamed(taskName) ==
    IF currentTask = taskName
    THEN /\ taskRecordsItem' = StoppedRecords
         /\ currentTask' = null
         /\ taskStartTime' = nullNumber
         /\ intervals' = clearInterval(intervals, taskTimerInterval)
         /\ taskTimerInterval' = nullNumber
    ELSE LET cleared == clearInterval(intervals, taskTimerInterval)
             handle == FreshHandle(cleared)
         IN  /\ taskRecordsItem' =
                    IF currentTask # null THEN StoppedRecords ELSE taskRecordsItem
             /\ currentTask' = taskName
             /\ taskStartTime' = now
             /\ intervals' = cleared \cup {[id |-> handle, fn |-> "updateTaskTimer"]}
             /\ taskTimerInterval' = handle

\* a quick-task button is clicked
quickStartTask ==
    /\ Quiescent
    /\ clicks < MaxClicks
    /\ NoTimeoutDue
    /\ clicks' = clicks + 1
    /\ \E taskName \in TaskNames : quickStartTaskNamed(taskName)
    /\ UNCHANGED <<deliveryVars, sandVars, holidayVars, now, workTimeVars, countdownVars,
                   calendarVars, lastRun>>

(***************************************************************************)
(* The countdown.                                                          *)
(***************************************************************************)
\* what may be typed into #countdown-minutes
CountdownInputs == {<<"1">>, <<"0">>, <<>>}

\* the start button is clicked
startCountdownTimer ==
    /\ Quiescent
    /\ clicks < MaxClicks
    /\ NoTimeoutDue
    /\ clicks' = clicks + 1
    /\ \E typed \in CountdownInputs :
        LET minutes == parseInt(typed)
        IN  IF isNaN(minutes) \/ minutes = 0 \/ minutes < 1
            THEN /\ stoppedInFlipDelay' = FALSE
                 /\ UNCHANGED <<intervals, flipTimeouts, countdownInterval,
                                countdownTotalSeconds, countdownRemainingSeconds,
                                countdownStartTime, notificationSounds, miniSandTop,
                                miniSandBottom>>
            ELSE /\ intervals' = clearInterval(intervals, countdownInterval)
                 /\ countdownInterval' = nullNumber
                 /\ IF countdownInterval # nullNumber
                    THEN miniSandTop' = HeightZero /\ miniSandBottom' = HeightOne
                    ELSE UNCHANGED <<miniSandTop, miniSandBottom>>
                 /\ countdownTotalSeconds' = minutes * 60
                 /\ countdownRemainingSeconds' = minutes * 60
                 /\ countdownStartTime' = nullNumber
                 /\ notificationSounds' = 0
                 /\ stoppedInFlipDelay' = FALSE
                 /\ flipTimeouts' = Append(flipTimeouts, now + 800)
    /\ UNCHANGED <<deliveryVars, sandVars, holidayVars, now, workTimeVars, taskVars,
                   calendarVars, lastRun>>

\* CountdownTick that draws the mini hourglass from the progress of the working day
CountdownTick_SharesWorkProgress(startTime, live, handle, top, bottom) ==
    LET elapsedMs == now - startTime
        totalMs == countdownTotalSeconds * 1000
        remainingMs == totalMs - elapsedMs
        result == calculateSandHeights(progressPercent)
    IN  IF startTime = nullNumber
        THEN [intervals |-> live, countdownInterval |-> handle,
              miniSandTop |-> top, miniSandBottom |-> bottom,
              notificationSounds |-> notificationSounds]
        ELSE IF remainingMs <= 0
        THEN [intervals |-> clearInterval(live, handle), countdownInterval |-> nullNumber,
              miniSandTop |-> HeightOne, miniSandBottom |-> HeightZero,
              notificationSounds |-> IF notificationSounds < MaxSounds
                                     THEN notificationSounds + 1 ELSE notificationSounds]
        ELSE [intervals |-> live, countdownInterval |-> handle,
              miniSandTop |-> result.lowerHeight, miniSandBottom |-> result.upperHeight,
              notificationSounds |-> notificationSounds]

\* what updateCountdownTimer leaves, given the start time and the live timers it finds
CountdownTick(startTime, live, handle, top, bottom) ==
    LET elapsedMs == now - startTime
        totalMs == countdownTotalSeconds * 1000
        remainingMs == totalMs - elapsedMs
        result == calculateSandHeights(Ratio(elapsedMs, totalMs))
    IN  IF startTime = nullNumber
        THEN [intervals |-> live, countdownInterval |-> handle,
              miniSandTop |-> top, miniSandBottom |-> bottom,
              notificationSounds |-> notificationSounds]
        ELSE IF remainingMs <= 0
        THEN [intervals |-> clearInterval(live, handle), countdownInterval |-> nullNumber,
              miniSandTop |-> HeightOne, miniSandBottom |-> HeightZero,
              notificationSounds |-> IF notificationSounds < MaxSounds
                                     THEN notificationSounds + 1 ELSE notificationSounds]
        ELSE [intervals |-> live, countdownInterval |-> handle,
              miniSandTop |-> result.lowerHeight, miniSandBottom |-> result.upperHeight,
              notificationSounds |-> notificationSounds]

\* the callback of setTimeout(..., 800) in startCountdownTimer
FlipTimeout ==
    /\ Quiescent
    /\ flipTimeouts # <<>>
    /\ now >= Head(flipTimeouts)
    /\ flipTimeouts' = Tail(flipTimeouts)
    /\ countdownStartTime' = now
    /\ LET handle == FreshHandle(intervals)
           live == intervals \cup {[id |-> handle, fn |-> "updateCountdownTimer"]}
           after == CountdownTick(now, live, handle, HeightZero, HeightOne)
       IN  /\ intervals' = after.intervals
           /\ countdownInterval' = after.countdownInterval
           /\ miniSandTop' = after.miniSandTop
           /\ miniSandBottom' = after.miniSandBottom
           /\ notificationSounds' = after.notificationSounds
    /\ UNCHANGED <<countdownTotalSeconds, countdownRemainingSeconds, stoppedInFlipDelay>>
    /\ UNCHANGED <<deliveryVars, sandVars, holidayVars, now, workTimeVars, taskVars,
                   calendarVars, clicks, lastRun>>

\* the tick of setInterval(updateCountdownTimer, 100)
updateCountdownTimer ==
    /\ Quiescent
    /\ CountdownTimers # {}
    /\ LET after == CountdownTick(countdownStartTime, intervals, countdownInterval,
                                  miniSandTop, miniSandBottom)
       IN  /\ intervals' = after.intervals
           /\ countdownInterval' = after.countdownInterval
           /\ miniSandTop' = after.miniSandTop
           /\ miniSandBottom' = after.miniSandBottom
           /\ notificationSounds' = after.notificationSounds
    /\ UNCHANGED <<flipTimeouts, countdownTotalSeconds, countdownRemainingSeconds,
                   countdownStartTime, stoppedInFlipDelay>>
    /\ UNCHANGED <<deliveryVars, sandVars, holidayVars, now, workTimeVars, taskVars,
                   calendarVars, clicks, lastRun>>

\* the stop button is clicked
stopCountdownTimer ==
    /\ Quiescent
    /\ clicks < MaxClicks
    /\ NoTimeoutDue
    /\ clicks' = clicks + 1
    /\ intervals' = clearInterval(intervals, countdownInterval)
    /\ countdownInterval' = nullNumber
    /\ miniSandTop' = HeightZero
    /\ miniSandBottom' = HeightOne
    /\ stoppedInFlipDelay' = (stoppedInFlipDelay \/ flipTimeouts # <<>>)
    /\ UNCHANGED <<flipTimeouts, countdownTotalSeconds, countdownRemainingSeconds,
                   countdownStartTime, notificationSounds>>
    /\ UNCHANGED <<deliveryVars, sandVars, holidayVars, now, workTimeVars, taskVars,
                   calendarVars, lastRun>>

(***************************************************************************)
(* Specifications.                                                         *)
(***************************************************************************)
\* the order dates typed in: windows around the turn of the year, the end of
\* February with and without a leap day, Golden Week, and the end of the table
DayOf(y, m, d) == DayFromYear(y) + MonthStart(m - 1, IF DaysInYear(y) = 366 THEN 1 ELSE 0) + d - 1
OrderDays ==
    (DayOf(2024, 12, 25) .. DayOf(2025, 1, 15)) \cup
    (DayOf(2025, 2, 18) .. DayOf(2025, 3, 1)) \cup
    (DayOf(2025, 4, 26) .. DayOf(2025, 5, 7)) \cup
    (DayOf(2028, 2, 24) .. DayOf(2028, 3, 2)) \cup
    (DayOf(2028, 12, 28) .. DayOf(2029, 1, 3))
\* the value a date input holds for the day t: YYYY-MM-DD
DateInputValue(t) ==
    PadChars(IntToChars(getFullYear(t)), 4) \o <<"-">> \o
    PadChars(IntToChars(getMonth(t) + 1), 2) \o <<"-">> \o
    PadChars(IntToChars(getDate(t)), 2)
\* what may be typed into the lead-time field
LeadTimeInputs ==
    {IntToChars(n) : n \in 1 .. MaxLead} \cup
    {<<>>, <<"0">>, <<"-", "1">>, <<"a">>, <<"2", ".", "5">>}

\* the page variables once init() has run at the instant t
InitPageVars(t) ==
    /\ holidayTable = holidays
    /\ holidayWarningShown = (getFullYear(Today) > HOLIDAY_DATA_MAX_YEAR)
    /\ now = t
    /\ WORK_START_HOUR = 8
    /\ WORK_START_MINUTE = 30
    /\ WORK_END_HOUR = 17
    /\ WORK_END_MINUTE = 30
    /\ workTimeSettingsItem = {}
    /\ progressPercent = WorkTimeDisplay(t, 8, 30, 17, 30).progressPercent
    /\ sandTop = WorkTimeDisplay(t, 8, 30, 17, 30).sandTop
    /\ sandBottom = WorkTimeDisplay(t, 8, 30, 17, 30).sandBottom
    /\ currentTask = null
    /\ taskStartTime = nullNumber
    /\ taskTimerInterval = nullNumber
    /\ taskRecordsItem = <<>>
    /\ intervals = {[id |-> 1, fn |-> "updateClock"]}
    /\ flipTimeouts = <<>>
    /\ countdownInterval = nullNumber
    /\ countdownTotalSeconds = 0
    /\ countdownRemainingSeconds = 0
    /\ countdownStartTime = nullNumber
    /\ notificationSounds = 0
    /\ stoppedInFlipDelay = FALSE
    /\ miniSandTop = HeightZero
    /\ miniSandBottom = HeightOne
    /\ calendarStartOffset = 0
    /\ calendarContainer = renderSixMonthCalendar(0)
    /\ clicks = 0
    /\ lastRun = {}

InitSandVars ==
    /\ sandProgress = NaN
    /\ sandResult = NoResult
    /\ sandWarned = FALSE
    /\ prevProgress = NaN
    /\ prevResult = NoResult
    /\ sandCalls = 0

InitDeliveryLocals ==
    /\ pc = "idle"
    /\ leadTime = NaN
    /\ orderDate = 0
    /\ businessDate = 0
    /\ businessDays = 0
    /\ holidayAwareDate = 0
    /\ holidayAwareDays = 0
    /\ calendarDate = 0
    /\ businessIters = 0
    /\ holidayAwareIters = 0
    /\ calcResultBusiness = ""
    /\ calcResultHolidayAware = ""
    /\ calcResultCalendar = ""
    /\ alertMsg = ""
    /\ calcMode = "business"
    /\ utcOffset = 0
    /\ currentDate = 0
    /\ calcResult = ""

\* the delivery calculator: the page is loaded and the two fields are filled in
InitDelivery ==
    /\ typedDay \in OrderDays
    /\ calcOrderDate \in {DateInputValue(typedDay), <<>>}
    /\ calcLeadTime \in LeadTimeInputs
    /\ InitDeliveryLocals
    /\ InitSandVars
    /\ InitPageVars(HMS(8, 0, 0))

NextDelivery ==
    \/ calculateDelivery
    \/ BusinessIteration
    \/ BusinessExit
    \/ HolidayAwareIteration
    \/ CalendarAndDisplay
    \/ calculateDeliveryPart000

SpecDelivery == InitDelivery /\ [][NextDelivery]_vars

\* calculateDelivery is synchronous code: once called it runs to its return
FairSpecDelivery ==
    /\ SpecDelivery
    /\ WF_vars(BusinessIteration)
    /\ WF_vars(BusinessExit)
    /\ WF_vars(HolidayAwareIteration)
    /\ WF_vars(CalendarAndDisplay)

\* the sand engine: the delivery fields stay as loaded
InitSand ==
    /\ typedDay = DayOf(2025, 1, 1)
    /\ calcOrderDate = <<>>
    /\ calcLeadTime = <<>>
    /\ InitDeliveryLocals
    /\ InitSandVars
    /\ InitPageVars(HMS(8, 0, 0))

NextSand == CallCalculateSandHeights

SpecSand == InitSand /\ [][NextSand]_vars

(***************************************************************************)
(* The calculator on the page: after a run has returned, the two fields    *)
(* are filled in for the next click; the locals of the run are gone, what  *)
(* it displayed stays.                                                     *)
(***************************************************************************)
PageOrderDays == {MakeDay(2025, 0, 10)}
PageLeadTimes == {<<"1">>, <<"0">>}

FillCalcFieldsFrom(days, leadTimes) ==
    /\ pc \in {"returned", "returnedPart000"}
    /\ \E day \in days :
        /\ typedDay' = day
        /\ calcOrderDate' \in {DateInputValue(day), <<>>}
    /\ calcLeadTime' \in leadTimes
    /\ lastRun' =
           IF pc = "returned" /\ alertMsg = ""
           THEN {[orderDate |-> calcOrderDate, leadTime |-> calcLeadTime,
                  business |-> calcResultBusiness, holidayAware |-> calcResultHolidayAware,
                  calendar |-> calcResultCalendar,
                  dates |-> <<businessDate, holidayAwareDate, calendarDate>>]}
           ELSE lastRun
    /\ pc' = "idle"
    /\ leadTime' = NaN
    /\ orderDate' = 0
    /\ businessDate' = 0
    /\ businessDays' = 0
    /\ holidayAwareDate' = 0
    /\ holidayAwareDays' = 0
    /\ calendarDate' = 0
    /\ businessIters' = 0
    /\ holidayAwareIters' = 0
    /\ alertMsg' = ""
    /\ UNCHANGED <<calcResultBusiness, calcResultHolidayAware, calcResultCalendar, calcMode,
                   utcOffset, currentDate, calcResult>>
    /\ UNCHANGED <<sandVars, holidayVars, now, workTimeVars, taskVars, intervals,
                   countdownVars, calendarVars, clicks>>

FillCalcFields == FillCalcFieldsFrom(PageOrderDays, PageLeadTimes)

\* the calculator used again and again, by either script: one lead time that passes
\* the check and every kind that does not
RerunLeadTimes == {<<"1">>, <<>>, <<"0">>, <<"-", "1">>, <<"a">>}
FillCalcFieldsAgain == FillCalcFieldsFrom(PageOrderDays, RerunLeadTimes)

InitRerun ==
    /\ typedDay \in PageOrderDays
    /\ calcOrderDate \in {DateInputValue(typedDay), <<>>}
    /\ calcLeadTime \in RerunLeadTimes
    /\ InitDeliveryLocals
    /\ InitSandVars
    /\ InitPageVars(HMS(8, 0, 0))

NextRerun ==
    \/ calculateDelivery
    \/ BusinessIteration
    \/ BusinessExit
    \/ HolidayAwareIteration
    \/ CalendarAndDisplay
    \/ calculateDeliveryPart000
    \/ FillCalcFieldsAgain

SpecRerun == InitRerun /\ [][NextRerun]_vars

\* the calculator used again for the same order date with another lead time
ValidLeadTimes == {IntToChars(n) : n \in 1 .. MaxLead}
FillCalcFieldsSameDay == FillCalcFieldsFrom({typedDay}, ValidLeadTimes)

InitLeadTimes ==
    /\ typedDay \in OrderDays
    /\ calcOrderDate \in {DateInputValue(typedDay), <<>>}
    /\ calcLeadTime \in ValidLeadTimes
    /\ InitDeliveryLocals
    /\ InitSandVars
    /\ InitPageVars(HMS(8, 0, 0))

NextLeadTimes ==
    \/ calculateDelivery
    \/ BusinessIteration
    \/ BusinessExit
    \/ HolidayAwareIteration
    \/ CalendarAndDisplay
    \/ FillCalcFieldsSameDay

SpecLeadTimes == InitLeadTimes /\ [][NextLeadTimes]_vars

\* the page: loaded in the morning, the calculator fields filled in
InitPage ==
    /\ typedDay \in PageOrderDays
    /\ calcOrderDate \in {DateInputValue(typedDay), <<>>}
    /\ calcLeadTime \in PageLeadTimes
    /\ InitDeliveryLocals
    /\ InitSandVars
    /\ InitPageVars(HMS(8, 0, 0))

NextPage ==
    \/ calculateDelivery
    \/ BusinessIteration
    \/ BusinessExit
    \/ HolidayAwareIteration
    \/ CalendarAndDisplay
    \/ FillCalcFields
    \/ TimePasses
    \/ updateWorkTimeDisplay
    \/ updateWorkTimeSettings
    \/ importAllSettings
    \/ nextMonths
    \/ previousMonths
    \/ resetToCurrentMonth
    \/ quickStartTask
    \/ stopTask
    \/ startCountdownTimer
    \/ FlipTimeout
    \/ updateCountdownTimer
    \/ stopCountdownTimer

SpecPage == InitPage /\ [][NextPage]_vars

Init == InitDelivery
Next == NextDelivery \/ NextSand \/ NextPage
Spec == Init /\ [][Next]_vars

(***************************************************************************)
(* Reference notions for the delivery claims, stated on day numbers.       *)
(***************************************************************************)
\* the table key of the calendar day t
DateKey(t) ==
    ToString(getFullYear(t)) \o "-" \o PadStart2(getMonth(t) + 1) \o "-" \o PadStart2(getDate(t))
InTable(t, table) == DateKey(t) \in DOMAIN table
IsWeekend(t) == getDay(t) = 0 \/ getDay(t) = 6
IsBusinessDay(t, table) == ~IsWeekend(t) /\ ~InTable(t, table)
\* r is the n-th business day strictly after o
IsNthBusinessDayAfter(r, n, o, table) ==
    /\ r > o
    /\ IsBusinessDay(r, table)
    /\ Cardinality({x \in (o + 1) .. r : IsBusinessDay(x, table)}) = n
\* r is the n-th day strictly after o that is not in the table
IsNthNonHolidayAfter(r, n, o, table) ==
    /\ r > o
    /\ ~InTable(r, table)
    /\ Cardinality({x \in (o + 1) .. r : ~InTable(x, table)}) = n
\* a run of calculateDelivery (src/app.js) that passed the input checks
Computed == pc = "returned" /\ alertMsg = ""
ComputedPart000(mode) == pc = "returnedPart000" /\ alertMsg = "" /\ calcMode = mode

(***************************************************************************)
(* C1: business mode.  Once the business loop has ended, businessDate is   *)
(* the leadTime-th day strictly after the order date that is neither a     *)
(* Saturday, nor a Sunday, nor in the holiday table; the order date itself *)
(* is not counted.  The business mode of part_000 computes the same from   *)
(* the Date it starts from, with its own table.                            *)
(***************************************************************************)
C1_BusinessMode ==
    /\ (pc = "holidayAware" \/ Computed)
           => IsNthBusinessDayAfter(businessDate, leadTime, typedDay, holidays)
    /\ ComputedPart000("business")
           => IsNthBusinessDayAfter(currentDate, leadTime, orderDate, holidaysPart000)

\* a finished run whose order date is a business day, and which skipped a weekend
\* and a holiday falling on a weekday
C1_Witness ==
    /\ Computed
    /\ IsBusinessDay(typedDay, holidays)
    /\ \E x \in (typedDay + 1) .. businessDate : IsWeekend(x)
    /\ \E x \in (typedDay + 1) .. businessDate : ~IsWeekend(x) /\ InTable(x, holidays)

(***************************************************************************)
(* C2: holiday-aware mode.  The holiday-aware result is the leadTime-th    *)
(* day strictly after the order date that is not in the holiday table;     *)
(* Saturdays and Sundays outside the table are counted like any other day. *)
(***************************************************************************)
C2_HolidayAwareMode ==
    Computed => IsNthNonHolidayAfter(holidayAwareDate, leadTime, typedDay, holidays)

\* a finished run that counted a weekend day and skipped a holiday
C2_Witness ==
    /\ Computed
    /\ \E x \in (typedDay + 1) .. holidayAwareDate : IsWeekend(x) /\ ~InTable(x, holidays)
    /\ \E x \in (typedDay + 1) .. holidayAwareDate : InTable(x, holidays)
    /\ holidayAwareDate < businessDate

(***************************************************************************)
(* C3: calendar mode.  The calendar result is the order date plus leadTime *)
(* days, whatever lies in between and across month and year ends; the     *)
(* order date 2025-01-01 with lead time 5 gives 2025-01-06.  The calendar  *)
(* mode of part_000 adds leadTime days to the Date it starts from.         *)
(***************************************************************************)
C3_CalendarMode ==
    /\ Computed => calendarDate = typedDay + leadTime
    /\ (/\ Computed
        /\ calcOrderDate = <<"2", "0", "2", "5", "-", "0", "1", "-", "0", "1">>
        /\ calcLeadTime = <<"5">>)
           => /\ calendarDate = 20094
              /\ getFullYear(calendarDate) = 2025
              /\ getMonth(calendarDate) = 0
              /\ getDate(calendarDate) = 6
              /\ calcResultCalendar = "1/6(Mon)"
    /\ ComputedPart000("calendar") => currentDate = orderDate + leadTime

\* a finished run that crosses the end of the year over a weekend and a holiday
C3_Witness ==
    /\ Computed
    /\ getFullYear(calendarDate) = getFullYear(typedDay) + 1
    /\ \E x \in (typedDay + 1) .. calendarDate : IsWeekend(x)
    /\ \E x \in (typedDay + 1) .. calendarDate : InTable(x, holidays)
    /\ calendarDate < holidayAwareDate

(***************************************************************************)
(* C4: both day-stepping loops terminate, after exactly leadTime plus the  *)
(* number of skipped days iterations; every iteration advances the date by *)
(* exactly one day and never decreases the counter.                        *)
(***************************************************************************)
SkippedBusiness ==
    Cardinality({x \in (typedDay + 1) .. businessDate : ~IsBusinessDay(x, holidays)})
SkippedHolidayAware ==
    Cardinality({x \in (typedDay + 1) .. holidayAwareDate : InTable(x, holidays)})
C4_LoopsTerminate ==
    /\ (pc = "business") ~> (pc = "holidayAware")
    /\ (pc = "holidayAware") ~> (pc = "returned")
    /\ []((pc = "holidayAware" \/ Computed) => businessIters = leadTime + SkippedBusiness)
    /\ [](Computed => holidayAwareIters = leadTime + SkippedHolidayAware)
    /\ [][(pc = "business" /\ pc' = "business")
             => /\ businessDate' = businessDate + 1
                /\ businessDays' >= businessDays
                /\ businessIters' = businessIters + 1]_vars
    /\ [][(pc = "holidayAware" /\ pc' = "holidayAware")
             => /\ holidayAwareDate' = holidayAwareDate + 1
                /\ holidayAwareDays' >= holidayAwareDays
                /\ holidayAwareIters' = holidayAwareIters + 1]_vars

\* a finished run in which both loops skipped days
C4_Witness ==
    /\ Computed
    /\ businessIters > leadTime + 2
    /\ holidayAwareIters > leadTime

(***************************************************************************)
(* Reference notions for the sand claims.                                  *)
(***************************************************************************)
\* a call has been made with a progress that is a number
Called == sandCalls >= 1 /\ ~isNaN(sandProgress)
\* two calls have been made, both with numbers
CalledTwice == sandCalls = 2 /\ ~isNaN(sandProgress) /\ ~isNaN(prevProgress)
\* clamp(p, 0, 1) of a number p
Clamp01(p) == IF p < 0 THEN 0 ELSE IF p > One THEN One ELSE p
InUnitInterval(p) == 0 <= p /\ p <= One

(***************************************************************************)
(* C5: conservation of sand volume.  For every progress other than NaN,    *)
(* lowerVolume is the progress clamped to [0,1], upperVolume is            *)
(* 1 - lowerVolume and the two sum to exactly 1; the mass-conservation     *)
(* warning is not raised for any progress, NaN included.                   *)
(***************************************************************************)
C5_VolumeConservation ==
    /\ Called =>
           /\ sandResult.lowerVolume = Clamp01(sandProgress)
           /\ sandResult.upperVolume = One - sandResult.lowerVolume
           /\ sandResult.upperVolume + sandResult.lowerVolume = One
    /\ sandCalls >= 1 => ~sandWarned

\* C5 as stated, for every progress value: the two volumes sum to exactly 1
C5_EveryProgressValue ==
    sandCalls >= 1 =>
        /\ sandResult.upperVolume = Minus(One, sandResult.lowerVolume)
        /\ Plus(sandResult.upperVolume, sandResult.lowerVolume) = One
        /\ ~sandWarned

\* a call with a progress strictly inside (0,1), after one with a progress outside [0,1]
C5_Witness ==
    /\ CalledTwice
    /\ 0 < sandProgress /\ sandProgress < One
    /\ ~InUnitInterval(prevProgress)
    /\ prevResult.upperVolume + prevResult.lowerVolume = One

(***************************************************************************)
(* C6: a progress below 0 gives the result of progress 0, a progress above *)
(* 1 gives the result of progress 1, and the call returns normally.        *)
(***************************************************************************)
C6_SilentClamp ==
    /\ (Called /\ sandProgress < 0) =>
           /\ sandResult = calculateSandHeights(0)
           /\ sandResult = [upperHeight |-> HeightOne, lowerHeight |-> HeightZero,
                            upperVolume |-> One, lowerVolume |-> 0]
    /\ (Called /\ sandProgress > One) =>
           /\ sandResult = calculateSandHeights(One)
           /\ sandResult = [upperHeight |-> HeightZero, lowerHeight |-> HeightOne,
                            upperVolume |-> 0, lowerVolume |-> One]
    /\ (CalledTwice /\ prevProgress = 0 /\ sandProgress < 0) => sandResult = prevResult
    /\ (CalledTwice /\ prevProgress = One /\ sandProgress > One) => sandResult = prevResult

\* a call with progress 1 followed by a call with a progress above 1
C6_Witness ==
    /\ CalledTwice
    /\ prevProgress = One
    /\ sandProgress > One
    /\ sandResult = prevResult

(***************************************************************************)
(* C7: endpoints.  Progress 0 gives upperHeight 1 and lowerHeight 0;       *)
(* progress 1 gives upperHeight 0 and lowerHeight 1.                       *)
(***************************************************************************)
C7_Endpoints ==
    /\ (Called /\ sandProgress = 0) =>
           sandResult.upperHeight = HeightOne /\ sandResult.lowerHeight = HeightZero
    /\ (Called /\ sandProgress = One) =>
           sandResult.upperHeight = HeightZero /\ sandResult.lowerHeight = HeightOne

\* a call with progress 0 followed by a call with progress 1
C7_Witness ==
    /\ CalledTwice
    /\ prevProgress = 0
    /\ sandProgress = One
    /\ sandResult.lowerHeight = HeightOne

(***************************************************************************)
(* C8: monotonicity.  Of two calls with p1 < p2, both in [0,1], the one    *)
(* with p2 has a lowerHeight at least as large and an upperHeight at most  *)
(* as large, the endpoints 0 and 1 included.                               *)
(***************************************************************************)
C8_Monotone ==
    /\ (/\ CalledTwice
        /\ InUnitInterval(prevProgress) /\ InUnitInterval(sandProgress)
        /\ prevProgress < sandProgress)
           => /\ prevResult.lowerHeight <= sandResult.lowerHeight
              /\ prevResult.upperHeight >= sandResult.upperHeight
    /\ (/\ CalledTwice
        /\ InUnitInterval(prevProgress) /\ InUnitInterval(sandProgress)
        /\ prevProgress > sandProgress)
           => /\ prevResult.lowerHeight >= sandResult.lowerHeight
              /\ prevResult.upperHeight <= sandResult.upperHeight

\* a call strictly inside (0,1) followed by the call with progress 1
C8_Witness ==
    /\ CalledTwice
    /\ 0 < prevProgress /\ prevProgress < One
    /\ sandProgress = One
    /\ prevResult.lowerHeight < sandResult.lowerHeight
    /\ prevResult.upperHeight > sandResult.upperHeight

(***************************************************************************)
(* C9: chamber symmetry.  The 'upper' and the 'lower' branch of            *)
(* volumeToHeight give the same height for the same volume, so the         *)
(* upperHeight at p is the lowerHeight at 1 - p, and at p = 0.5 the two    *)
(* heights of one result are equal.                                        *)
(***************************************************************************)
C9_Symmetry ==
    /\ (Called /\ InUnitInterval(sandProgress)) =>
           /\ volumeToHeight(sandResult.upperVolume, "upper")
                  = volumeToHeight(sandResult.upperVolume, "lower")
           /\ volumeToHeight(sandResult.lowerVolume, "upper")
                  = volumeToHeight(sandResult.lowerVolume, "lower")
           /\ sandResult.upperHeight = calculateSandHeights(One - sandProgress).lowerHeight
    /\ (/\ CalledTwice
        /\ InUnitInterval(sandProgress)
        /\ prevProgress = One - sandProgress)
           => /\ sandResult.upperHeight = prevResult.lowerHeight
              /\ sandResult.lowerHeight = prevResult.upperHeight
    /\ (Called /\ 2 * sandProgress = One) => sandResult.upperHeight = sandResult.lowerHeight

\* a call at p strictly inside (0,1), not the midpoint, after a call at 1 - p
C9_Witness ==
    /\ CalledTwice
    /\ 0 < sandProgress /\ sandProgress < One
    /\ prevProgress = One - sandProgress
    /\ prevProgress # sandProgress
    /\ sandResult.upperHeight = prevResult.lowerHeight
    /\ sandResult.upperHeight # sandResult.lowerHeight

(***************************************************************************)
(* C10: range.  For every progress that is a number, inside or outside     *)
(* [0,1], upperHeight and lowerHeight lie in [0,1].                        *)
(***************************************************************************)
C10_HeightRange ==
    Called =>
        /\ ~isNaN(sandResult.upperHeight)
        /\ ~isNaN(sandResult.lowerHeight)
        /\ HeightZero <= sandResult.upperHeight /\ sandResult.upperHeight <= HeightOne
        /\ HeightZero <= sandResult.lowerHeight /\ sandResult.lowerHeight <= HeightOne

\* a call with a progress above 1, after a call with a progress below 0
C10_Witness ==
    /\ CalledTwice
    /\ prevProgress < 0
    /\ sandProgress > One
    /\ sandResult.lowerHeight = HeightOne
    /\ prevResult.upperHeight = HeightOne
(***************************************************************************)
(* C11: determinism.  Two runs of calculateDelivery on the same order date *)
(* and the same lead time, with the holiday table as shipped, show the     *)
(* same three results and reach the same three dates, whatever the clock   *)
(* reads and whatever the page did before and between them: clock ticks,   *)
(* tasks started and stopped, the calendar moved, the countdown run.       *)
(***************************************************************************)
SameInputs(r) == r.orderDate = calcOrderDate /\ r.leadTime = calcLeadTime

C11_Determinism ==
    Computed =>
        \A r \in lastRun :
            SameInputs(r) /\ holidayTable = holidays
                => /\ calcResultBusiness = r.business
                   /\ calcResultHolidayAware = r.holidayAware
                   /\ calcResultCalendar = r.calendar
                   /\ <<businessDate, holidayAwareDate, calendarDate>> = r.dates

\* a second run on the same inputs, made later in the day with a task being recorded
\* and the calendar moved
C11_Witness ==
    /\ Computed
    /\ \E r \in lastRun : SameInputs(r)
    /\ now > HMS(8, 0, 0)
    /\ currentTask # null
    /\ calendarStartOffset # 0
    /\ progressPercent > 0

(***************************************************************************)
(* C12: in every displayed result the weekday label is the weekday of the  *)
(* date shown next to it: each of the three texts of app.js, and the text  *)
(* of part_000, is the month and the day of the computed date followed by  *)
(* the name of the weekday that date falls on.  The weekday is counted     *)
(* from 1 January 2025, a Wednesday.                                       *)
(***************************************************************************)
WeekdayName(t) ==
    CASE (t - DayOf(2025, 1, 1)) % 7 = 0 -> "Wed"
      [] (t - DayOf(2025, 1, 1)) % 7 = 1 -> "Thu"
      [] (t - DayOf(2025, 1, 1)) % 7 = 2 -> "Fri"
      [] (t - DayOf(2025, 1, 1)) % 7 = 3 -> "Sat"
      [] (t - DayOf(2025, 1, 1)) % 7 = 4 -> "Sun"
      [] (t - DayOf(2025, 1, 1)) % 7 = 5 -> "Mon"
      [] (t - DayOf(2025, 1, 1)) % 7 = 6 -> "Tue"
DateWithWeekday(t) ==
    ToString(getMonth(t) + 1) \o "/" \o ToString(getDate(t)) \o "(" \o WeekdayName(t) \o ")"

C12_WeekdayLabel ==
    /\ Computed =>
           /\ calcResultBusiness = DateWithWeekday(businessDate)
           /\ calcResultHolidayAware = DateWithWeekday(holidayAwareDate)
           /\ calcResultCalendar = DateWithWeekday(calendarDate)
    /\ (pc = "returnedPart000" /\ alertMsg = "") =>
           calcResult = "-> " \o DateWithWeekday(currentDate)

\* three results on three different weekdays, one of them a Sunday, in another month
\* than the order date
C12_Witness ==
    /\ Computed
    /\ Cardinality({getDay(businessDate), getDay(holidayAwareDate), getDay(calendarDate)}) = 3
    /\ getDay(calendarDate) = 0
    /\ getMonth(businessDate) # getMonth(typedDay)

(***************************************************************************)
(* C13: a holiday-lookup miss is not an error.  For a date with no entry   *)
(* in the table, dates before and after the covered years included,        *)
(* isHoliday returns undefined, a falsy value; the holiday-aware loop      *)
(* counts every such date it steps to, and the business loop counts it     *)
(* when it is not a Saturday or a Sunday; the run goes on.                 *)
(***************************************************************************)
Lookup(t) == isHoliday(getFullYear(t), getMonth(t), getDate(t))

C13_LookupMiss ==
    /\ [](\A t \in OrderDays : ~InTable(t, holidays) => Lookup(t) = undefined /\ ~Truthy(Lookup(t)))
    /\ [][(pc = "business" /\ businessDate' # businessDate /\ ~InTable(businessDate', holidays))
             => /\ Lookup(businessDate') = undefined
                /\ pc' = "business"
                /\ businessDays' = IF IsWeekend(businessDate') THEN businessDays
                                   ELSE businessDays + 1]_vars
    /\ [][(pc = "holidayAware" /\ holidayAwareDate' # holidayAwareDate
             /\ ~InTable(holidayAwareDate', holidays))
             => /\ Lookup(holidayAwareDate') = undefined
                /\ pc' = "holidayAware"
                /\ holidayAwareDays' = holidayAwareDays + 1]_vars

\* a finished run from the last days of 2028 whose two loops counted days of 2029, a
\* year the table does not cover
C13_Witness ==
    /\ Computed
    /\ getFullYear(typedDay) = 2028
    /\ getFullYear(holidayAwareDate) = 2029
    /\ getFullYear(businessDate) = 2029
    /\ businessIters > leadTime

(***************************************************************************)
(* C14: invalid input is turned away before any computation.  When the     *)
(* order date is empty, or the lead time typed is empty, not a number,     *)
(* zero or negative, a click on the calculator alerts and returns at once: *)
(* no day-stepping loop is entered and every result shown before stays as  *)
(* it was.  The same holds for part_000 and its one result.                *)
(***************************************************************************)
\* the text is a whole number of at least one
PositiveWholeNumber(s) ==
    /\ s # <<>>
    /\ \A i \in 1 .. Len(s) : IsDigit(s[i])
    /\ \E i \in 1 .. Len(s) : s[i] # "0"
InvalidInput == calcOrderDate = <<>> \/ ~PositiveWholeNumber(calcLeadTime)

C14_InvalidInputRejected ==
    /\ [][(pc = "idle" /\ InvalidInput)
             => /\ pc' \in {"returned", "returnedPart000"}
                /\ alertMsg' # ""
                /\ UNCHANGED <<calcResultBusiness, calcResultHolidayAware, calcResultCalendar,
                               calcResult>>
                /\ businessIters' = 0
                /\ holidayAwareIters' = 0]_vars
    /\ [](alertMsg # "" => InvalidInput /\ businessIters = 0 /\ holidayAwareIters = 0)
    /\ [](pc \in {"business", "holidayAware"} => ~InvalidInput)

\* a negative lead time turned away while the results of an earlier run are on display
C14_Witness ==
    /\ pc = "returned"
    /\ alertMsg = "enter the lead time"
    /\ calcLeadTime = <<"-", "1">>
    /\ calcResultBusiness = "1/14(Tue)"
    /\ calcResultHolidayAware = "1/11(Sat)"
    /\ calcResultCalendar = "1/11(Sat)"
    /\ calcResult # ""

(***************************************************************************)
(* C15: the order date typed as YYYY-MM-DD is taken as that local calendar *)
(* date in every time zone.  Once a run has accepted its inputs, the date  *)
(* counting starts from has the year, the month and the day typed, in      *)
(* app.js and in part_000 alike, whatever the zone's offset from UTC.      *)
(***************************************************************************)
\* the date has the year, month and day of the text YYYY-MM-DD
HasTypedFields(date, s) ==
    LET parts == split(s, "-")
    IN  /\ getFullYear(date) = Number(parts[1])
        /\ getMonth(date) + 1 = Number(parts[2])
        /\ getDate(date) = Number(parts[3])
\* app.js has parsed the order date of the run in hand
StartedAppJs == pc \in {"business", "holidayAware", "calendar"} \/ Computed
\* part_000 has parsed the order date of the run in hand
StartedPart000 == pc = "returnedPart000" /\ alertMsg = ""

\* app.js: new Date(y, m - 1, d) of the three numbers typed
AppJsLocalDate == StartedAppJs => HasTypedFields(orderDate, calcOrderDate)
\* part_000: new Date(orderDateStr)
Part000LocalDate == StartedPart000 => HasTypedFields(orderDate, calcOrderDate)

C15_LocalCalendarDate == AppJsLocalDate /\ Part000LocalDate

(***************************************************************************)
(* C16: the business-mode scenario.  With the shipped holiday table, the   *)
(* order date 2025-01-01 and the lead time 5 give 2025-01-08: the loop     *)
(* steps a day at a time, counts 1/2, 1/3, 1/6, 1/7 and 1/8, and passes    *)
(* over Saturday 1/4 and Sunday 1/5 only.                                  *)
(***************************************************************************)
BusinessScenario ==
    /\ calcOrderDate = <<"2", "0", "2", "5", "-", "0", "1", "-", "0", "1">>
    /\ calcLeadTime = <<"5">>
    /\ holidayTable = holidays
BusinessScenarioCounted ==
    {DayOf(2025, 1, 2), DayOf(2025, 1, 3), DayOf(2025, 1, 6), DayOf(2025, 1, 7),
     DayOf(2025, 1, 8)}
BusinessScenarioSkipped == {DayOf(2025, 1, 4), DayOf(2025, 1, 5)}

C16_BusinessScenario ==
    /\ [](BusinessScenario /\ Computed
            => /\ businessDate = DayOf(2025, 1, 8)
               /\ calcResultBusiness = "1/8(Wed)")
    /\ [][(BusinessScenario /\ pc = "business" /\ businessDate' # businessDate)
             => /\ businessDate' = businessDate + 1
                /\ businessDate' \in BusinessScenarioCounted \cup BusinessScenarioSkipped
                /\ businessDate' \in BusinessScenarioCounted
                       => businessDays' = businessDays + 1
                /\ businessDate' \in BusinessScenarioSkipped
                       => businessDays' = businessDays]_vars

C16_Witness ==
    /\ BusinessScenario
    /\ Computed
    /\ businessDate = DayOf(2025, 1, 8)
    /\ businessIters = Cardinality(BusinessScenarioCounted \cup BusinessScenarioSkipped)

(***************************************************************************)
(* C17: the holiday-aware scenario.  With the shipped holiday table, the   *)
(* order date 2025-01-10, a Friday, and the lead time 3 give 2025-01-14:   *)
(* the loop counts Saturday 1/11 and Sunday 1/12, passes over the holiday  *)
(* 1/13 and counts 1/14.                                                   *)
(***************************************************************************)
HolidayAwareScenario ==
    /\ calcOrderDate = <<"2", "0", "2", "5", "-", "0", "1", "-", "1", "0">>
    /\ calcLeadTime = <<"3">>
    /\ holidayTable = holidays
HolidayAwareScenarioCounted == {DayOf(2025, 1, 11), DayOf(2025, 1, 12), DayOf(2025, 1, 14)}
HolidayAwareScenarioSkipped == {DayOf(2025, 1, 13)}

C17_HolidayAwareScenario ==
    /\ [](HolidayAwareScenario /\ pc \in {"business", "holidayAware"}
            => (orderDate - DayOf(2025, 1, 5)) % 7 = 5)
    /\ [](HolidayAwareScenario /\ Computed
            => /\ holidayAwareDate = DayOf(2025, 1, 14)
               /\ calcResultHolidayAware = "1/14(Tue)")
    /\ [][(HolidayAwareScenario /\ pc = "holidayAware"
              /\ holidayAwareDate' # holidayAwareDate)
             => /\ holidayAwareDate' = holidayAwareDate + 1
                /\ holidayAwareDate' \in
                       HolidayAwareScenarioCounted \cup HolidayAwareScenarioSkipped
                /\ holidayAwareDate' \in HolidayAwareScenarioCounted
                       => holidayAwareDays' = holidayAwareDays + 1
                /\ holidayAwareDate' \in HolidayAwareScenarioSkipped
                       => holidayAwareDays' = holidayAwareDays]_vars

C17_Witness ==
    /\ HolidayAwareScenario
    /\ Computed
    /\ holidayAwareDate = DayOf(2025, 1, 14)
    /\ holidayAwareIters =
           Cardinality(HolidayAwareScenarioCounted \cup HolidayAwareScenarioSkipped)

(***************************************************************************)
(* C18: the holiday table is read-only and the calculators have no side    *)
(* effect on the module.  Whatever is done on the page (lookups, delivery  *)
(* runs, calendar rendering, the range check of init, a settings import),  *)
(* the table stays the one shipped.  A step of calculateDelivery, and a    *)
(* work-clock tick with its calculateSandHeights call, leave every         *)
(* module-level variable as it was: the working day, the current task,     *)
(* the countdown, the calendar offset; a countdown tick with its           *)
(* calculateSandHeights call writes nothing but the countdown's own state. *)
(***************************************************************************)
\* let/const variables at the top level of app.js other than the countdown's
ModuleVariables ==
    <<holidayTable, holidayWarningShown, WORK_START_HOUR, WORK_START_MINUTE, WORK_END_HOUR,
      WORK_END_MINUTE, currentTask, taskStartTime, taskTimerInterval, calendarStartOffset>>
CountdownVariables ==
    <<countdownInterval, countdownTotalSeconds, countdownRemainingSeconds,
      countdownStartTime>>
\* a step taken inside a run of calculateDelivery, of either script
DeliveryRunStep ==
    /\ pc' # "idle"
    /\ <<pc, businessIters, holidayAwareIters>>' # <<pc, businessIters, holidayAwareIters>>

C18_HolidayTableReadOnly ==
    /\ [](holidayTable = holidays)
    /\ [][DeliveryRunStep
             => UNCHANGED <<ModuleVariables, CountdownVariables, intervals, flipTimeouts,
                            workTimeSettingsItem, taskRecordsItem>>]_vars
    /\ [][updateWorkTimeDisplay
             => UNCHANGED <<ModuleVariables, CountdownVariables, intervals, flipTimeouts,
                            workTimeSettingsItem, taskRecordsItem>>]_vars
    /\ [][updateCountdownTimer
             => UNCHANGED <<ModuleVariables, workTimeSettingsItem, taskRecordsItem>>]_vars
    /\ [][CallCalculateSandHeights
             => UNCHANGED <<ModuleVariables, CountdownVariables, intervals, flipTimeouts,
                            workTimeSettingsItem, taskRecordsItem>>]_vars

\* a run has returned its dates on a page whose working day was imported, with a task
\* running and the clock past its first instant
C18_Witness ==
    /\ Computed
    /\ holidayTable = holidays
    /\ WORK_START_HOUR = 9
    /\ workTimeSettingsItem # {}
    /\ currentTask # null
    /\ now > HMS(8, 0, 0)

(***************************************************************************)
(* C19: interleaved callers do not interfere.  In whatever order the ticks *)
(* of the work clock, the ticks of the countdown and delivery runs follow  *)
(* one another, the work hourglass shows calculateSandHeights of the work  *)
(* progress, a countdown tick draws calculateSandHeights of the countdown's*)
(* own elapsed share, a delivery run returns the dates its own order date  *)
(* and lead time determine, and none of the three touches what the others  *)
(* show.                                                                   *)
(***************************************************************************)
\* elapsedMs / totalMs of the countdown at this instant
CountdownProgress == Ratio(now - countdownStartTime, countdownTotalSeconds * 1000)
\* the countdown is under way and has time left
CountdownRunning ==
    /\ countdownStartTime # nullNumber
    /\ now - countdownStartTime < countdownTotalSeconds * 1000
deliveryResults ==
    <<businessDate, holidayAwareDate, calendarDate, calcResultBusiness,
      calcResultHolidayAware, calcResultCalendar>>

C19_NoInterference ==
    /\ [](/\ sandTop = calculateSandHeights(progressPercent).upperHeight
          /\ sandBottom = calculateSandHeights(progressPercent).lowerHeight)
    /\ [][(updateCountdownTimer /\ CountdownRunning)
             => /\ miniSandBottom' = calculateSandHeights(CountdownProgress).upperHeight
                /\ miniSandTop' = calculateSandHeights(CountdownProgress).lowerHeight]_vars
    /\ [](Computed
            => /\ IsNthBusinessDayAfter(businessDate, parseInt(calcLeadTime), typedDay, holidays)
               /\ IsNthNonHolidayAfter(holidayAwareDate, parseInt(calcLeadTime), typedDay,
                                       holidays)
               /\ calendarDate = typedDay + parseInt(calcLeadTime))
    /\ [][updateWorkTimeDisplay
             => UNCHANGED <<miniSandTop, miniSandBottom, deliveryResults>>]_vars
    /\ [][updateCountdownTimer
             => UNCHANGED <<progressPercent, sandTop, sandBottom, deliveryResults>>]_vars
    /\ [][DeliveryRunStep
             => UNCHANGED <<progressPercent, sandTop, sandBottom, miniSandTop,
                            miniSandBottom>>]_vars

\* a run has returned while both hourglasses stand part-way, at different heights
C19_Witness ==
    /\ Computed
    /\ progressPercent \notin {0, One}
    /\ CountdownRunning
    /\ miniSandTop \notin {HeightZero, HeightOne}
    /\ miniSandTop # sandBottom

(***************************************************************************)
(* C20: month indexing.  isHoliday takes the month zero-based and looks up *)
(* the key with the month one-based.  Both call sites hand it a zero-based *)
(* month: the loops of calculateDelivery, which therefore count a date as  *)
(* a holiday exactly when the table has an entry for that date, and        *)
(* renderSingleMonth, which marks in each month drawn exactly the days the *)
(* table has an entry for.                                                 *)
(***************************************************************************)
\* the table has an entry for the day of the month numbered from 1 (January) to 12
HasEntry(year, monthNumber, day) ==
    (ToString(year) \o "-" \o PadStart2(monthNumber) \o "-" \o PadStart2(day))
        \in DOMAIN holidays
\* the year whose months the calendar shows at offset 0, and the days of the month on
\* which one of its months or another has a holiday
CalendarYear == getFullYear(Today) + 1
HolidayDaysOfMonth ==
    {day \in 1 .. 31 : \E monthNumber \in 1 .. 12 : HasEntry(CalendarYear, monthNumber, day)}
\* the days the table has an entry for, by year and by month numbered from 1
EntriesOfMonth ==
    [year \in HOLIDAY_DATA_MAX_YEAR - 4 .. HOLIDAY_DATA_MAX_YEAR + 1 |->
        [monthNumber \in 1 .. 12 |-> {day \in 1 .. 31 : HasEntry(year, monthNumber, day)}]]

C20_MonthIndexing ==
    /\ [](\A month \in 0 .. 11, day \in HolidayDaysOfMonth :
              Truthy(isHoliday(CalendarYear, month, day))
                  <=> day \in EntriesOfMonth[CalendarYear][month + 1])
    /\ [](\A i \in 0 .. 5 :
              LET cell == calendarContainer[i]
              IN  /\ cell.month \in 0 .. 11
                  /\ cell.year * 12 + cell.month =
                         getFullYear(Today) * 12 + getMonth(Today) + calendarStartOffset + i
                  /\ cell.holiday = EntriesOfMonth[cell.year][cell.month + 1])
    /\ [][(pc = "business" /\ businessDate' # businessDate)
             => (businessDays' = businessDays
                    <=> \/ IsWeekend(businessDate')
                        \/ HasEntry(getFullYear(businessDate'), getMonth(businessDate') + 1,
                                    getDate(businessDate')))]_vars
    /\ [][(pc = "holidayAware" /\ holidayAwareDate' # holidayAwareDate)
             => (holidayAwareDays' = holidayAwareDays
                    <=> HasEntry(getFullYear(holidayAwareDate'),
                                 getMonth(holidayAwareDate') + 1,
                                 getDate(holidayAwareDate')))]_vars

\* the calendar has been paged to months with holidays marked, January among them, and a
\* run has passed over the holiday of Monday 2025-01-13
C20_Witness ==
    /\ Computed
    /\ businessDate = DayOf(2025, 1, 14)
    /\ calendarStartOffset # 0
    /\ \E i \in 0 .. 5 :
           /\ calendarContainer[i].month = 0
           /\ calendarContainer[i].holiday # {}

(***************************************************************************)
(* C21: a progress that is not a number is not guarded.  The call returns  *)
(* as any other, does not clamp the value to 0 or to 1 and does not warn:  *)
(* lowerVolume, upperVolume, lowerHeight and upperHeight are all NaN.      *)
(***************************************************************************)
C21_NaNPropagates ==
    (sandCalls >= 1 /\ isNaN(sandProgress))
        => /\ isNaN(sandResult.lowerVolume)
           /\ isNaN(sandResult.upperVolume)
           /\ isNaN(sandResult.lowerHeight)
           /\ isNaN(sandResult.upperHeight)
           /\ sandResult \notin {calculateSandHeights(0), calculateSandHeights(One)}
           /\ ~sandWarned

\* a call with NaN after a call with a progress inside (0,1) that gave numbers
C21_Witness ==
    /\ sandCalls >= 2
    /\ isNaN(sandProgress)
    /\ 0 < prevProgress /\ prevProgress < One
    /\ ~isNaN(prevResult.lowerHeight)
    /\ isNaN(sandResult.lowerHeight)

(***************************************************************************)
(* C22: the three modes of one run are independent.  Each mode starts from *)
(* its own copy of the order date: the business loop, the holiday-aware    *)
(* loop and the calendar sum each begin at the order date as parsed, the   *)
(* steps of one mode leave the dates of the other two alone, and no step   *)
(* of the run changes the order date.                                      *)
(***************************************************************************)
C22_ModesIndependent ==
    /\ [][(pc = "business" \/ pc = "holidayAware") => orderDate' = orderDate]_vars
    /\ [][(pc = "idle" /\ pc' = "business") => (businessDate' = orderDate')]_vars
    /\ [][(pc = "business" /\ pc' = "holidayAware")
             => /\ holidayAwareDate' = orderDate
                /\ holidayAwareDays' = 0
                /\ businessDate' = businessDate]_vars
    /\ [][(pc = "business" /\ pc' = "business")
             => UNCHANGED <<holidayAwareDate, calendarDate>>]_vars
    /\ [][(pc = "holidayAware" /\ pc' = "holidayAware")
             => UNCHANGED <<businessDate, businessDays, calendarDate>>]_vars
    /\ [][(pc = "holidayAware" /\ pc' = "returned")
             => /\ calendarDate' = orderDate + leadTime
                /\ UNCHANGED <<businessDate, holidayAwareDate>>]_vars
    /\ [](Computed => /\ orderDate = typedDay
                      /\ IsNthBusinessDayAfter(businessDate, leadTime, orderDate, holidays)
                      /\ IsNthNonHolidayAfter(holidayAwareDate, leadTime, orderDate, holidays))

\* a finished run whose three modes gave three different dates, the order date intact
C22_Witness ==
    /\ Computed
    /\ orderDate = typedDay
    /\ calendarDate < holidayAwareDate
    /\ holidayAwareDate < businessDate
    /\ businessIters > holidayAwareIters

(***************************************************************************)
(* C23: task toggling.  A click on the quick button of the running task    *)
(* stops it, saves its record and leaves no task running.  A click on      *)
(* another button while a task runs saves exactly one record, that of the  *)
(* running task, in front of the others, and starts the new task.  A click *)
(* while no task runs starts the task and saves no record.  stopTask while *)
(* no task runs changes nothing.                                           *)
(***************************************************************************)
TaskTimers == {i \in intervals : i.fn = "updateTaskTimer"}
\* the record of the running task, stopped at this instant
RunningTaskRecord ==
    [task |-> currentTask, startTime |-> taskStartTime, endTime |-> now,
     duration |-> (now - taskStartTime) \div 1000]
\* after the step no task runs and no task timer is live
NoTaskAfter ==
    /\ currentTask' = null
    /\ taskStartTime' = nullNumber
    /\ taskTimerInterval' = nullNumber
    /\ TaskTimers' = {}
\* after the step the task n runs, started at this instant, on one timer
TaskStartedAfter(n) ==
    /\ currentTask' = n
    /\ taskStartTime' = now
    /\ TaskTimers' = {[id |-> taskTimerInterval', fn |-> "updateTaskTimer"]}

C23_TaskToggling ==
    /\ [][\A n \in TaskNames :
             (quickStartTask /\ quickStartTaskNamed(n))
                 => IF currentTask = n
                    THEN /\ NoTaskAfter
                         /\ taskRecordsItem' = <<RunningTaskRecord>> \o taskRecordsItem
                    ELSE IF currentTask # null
                    THEN /\ TaskStartedAfter(n)
                         /\ taskRecordsItem' = <<RunningTaskRecord>> \o taskRecordsItem
                    ELSE /\ TaskStartedAfter(n)
                         /\ taskRecordsItem' = taskRecordsItem]_vars
    /\ [][(stopTask /\ currentTask = null)
             => UNCHANGED <<currentTask, taskStartTime, taskTimerInterval, taskRecordsItem,
                            intervals>>]_vars

\* a task was started and, some time later, another button was clicked: the first task
\* is on record and the second runs
C23_Witness ==
    /\ currentTask \in TaskNames
    /\ Len(taskRecordsItem) = 1
    /\ taskRecordsItem[1].task \in TaskNames \ {currentTask}
    /\ taskRecordsItem[1].duration > 0
    /\ taskStartTime = taskRecordsItem[1].endTime
    /\ Cardinality(TaskTimers) = 1

(***************************************************************************)
(* C24: the task timer.  Whatever buttons were clicked, at most one        *)
(* interval running updateTaskTimer is live, and one is live exactly when  *)
(* a task is running: taskTimerInterval, currentTask and taskStartTime are *)
(* null together or set together, and taskTimerInterval is the handle of   *)
(* the live interval.                                                      *)
(***************************************************************************)
C24_OneTaskTimer ==
    /\ Cardinality(TaskTimers) <= 1
    /\ (taskTimerInterval # nullNumber) <=> (currentTask # null)
    /\ (currentTask # null) <=> (taskStartTime # nullNumber)
    /\ (TaskTimers # {}) <=> (currentTask # null)
    /\ \A i \in TaskTimers : i.id = taskTimerInterval

\* a task runs on its one timer while the clock's and the countdown's intervals are live too
C24_Witness ==
    /\ currentTask # null
    /\ Cardinality(TaskTimers) = 1
    /\ CountdownTimers # {}
    /\ Cardinality(intervals) = 3

(***************************************************************************)
(* C25: starting a countdown stops the one before.  Whatever the order of  *)
(* starts and timer callbacks, two starts within the 800 ms flip delay     *)
(* included, at most one interval running updateCountdownTimer is live, it *)
(* is the one countdownInterval names, and it counts down the duration     *)
(* entered last.                                                           *)
(***************************************************************************)
\* the durations, in seconds, that the start button accepts from the inputs typed
EnteredDurations ==
    {parseInt(typed) * 60 : typed \in {t \in CountdownInputs : ~isNaN(parseInt(t))
                                                              /\ parseInt(t) >= 1}}

C25_OneCountdownInterval ==
    /\ [](Cardinality(CountdownTimers) <= 1)
    /\ [](\A i \in CountdownTimers : i.id = countdownInterval)
    /\ [](CountdownTimers # {} => countdownTotalSeconds \in EnteredDurations)
    /\ [][(startCountdownTimer /\ flipTimeouts' # flipTimeouts)
             => /\ CountdownTimers' = {}
                /\ countdownTotalSeconds' \in EnteredDurations
                /\ countdownRemainingSeconds' = countdownTotalSeconds']_vars

(***************************************************************************)
(* C26: countdown completion.  A tick of updateCountdownTimer that finds   *)
(* the elapsed time at or past the total stops the interval, shows the     *)
(* falling side full and the other side empty, and plays the notification  *)
(* sound.  The sound is played once per start, and once it has been played *)
(* no countdown interval is live, so no later tick runs, until a new start.*)
(***************************************************************************)
\* the countdown has been started and its time is up
TimeUp ==
    /\ countdownStartTime # nullNumber
    /\ now - countdownStartTime >= countdownTotalSeconds * 1000

C26_CompletionOnce ==
    /\ [][(updateCountdownTimer /\ TimeUp)
             => /\ CountdownTimers' = {}
                /\ countdownInterval' = nullNumber
                /\ miniSandTop' = HeightOne
                /\ miniSandBottom' = HeightZero
                /\ notificationSounds = 0
                /\ notificationSounds' = 1]_vars
    /\ [](notificationSounds <= 1)
    /\ [](notificationSounds >= 1 => CountdownTimers = {})

(***************************************************************************)
(* C27: the working day is valid.  updateWorkTimeSettings turns away an    *)
(* empty field and a start that is not strictly before the end, and then   *)
(* leaves the four WORK_ variables and the stored settings as they were.   *)
(* In every state, after stored settings have been loaded too, the start   *)
(* of the working day is strictly before its end.                          *)
(***************************************************************************)
\* minutes since midnight of a time typed as HH:MM
TypedMinutes(time) == Number(split(time, ":")[1]) * 60 + Number(split(time, ":")[2])
\* what updateWorkTimeSettings is to turn away
InvalidWorkTime(typed) ==
    \/ typed[1] = <<>>
    \/ typed[2] = <<>>
    \/ (typed[1] # <<>> /\ typed[2] # <<>> /\ TypedMinutes(typed[1]) >= TypedMinutes(typed[2]))
WorkStartMinutes == WORK_START_HOUR * 60 + WORK_START_MINUTE
WorkEndMinutes == WORK_END_HOUR * 60 + WORK_END_MINUTE

RejectedUpdateChangesNothing ==
    [][\A typed \in WorkTimeInputs :
          (updateWorkTimeSettings /\ updateWorkTimeSettingsTyped(typed)
             /\ InvalidWorkTime(typed))
              => UNCHANGED <<WORK_START_HOUR, WORK_START_MINUTE, WORK_END_HOUR,
                             WORK_END_MINUTE, workTimeSettingsItem>>]_vars

C27_WorkTimeValid ==
    /\ RejectedUpdateChangesNothing
    /\ [](WorkStartMinutes < WorkEndMinutes)

(***************************************************************************)
(* C28: work-day progress.  What a clock tick computes at any instant      *)
(* under the working day in force: a progress between 0 and 100 per cent,  *)
(* an elapsed and a remaining time that add up to the length of the        *)
(* working day, progress 0 before the work start and 100 after the work    *)
(* end; every tick shows that progress and hands it, as a ratio between 0  *)
(* and 1, to calculateSandHeights.  Progress is held as the ratio.         *)
(***************************************************************************)
\* what a tick of the clock computes in this state
TickShows ==
    WorkTimeDisplay(now, WORK_START_HOUR, WORK_START_MINUTE, WORK_END_HOUR, WORK_END_MINUTE)
\* seconds since midnight on the clock
ClockSeconds == now \div 1000
InUnitRange(p) == ~isNaN(p) /\ 0 <= p /\ p <= One
\* the progress a tick computes, and the times it shows with it
TickProgressInRange ==
    /\ InUnitRange(TickShows.progressPercent)
    /\ TickShows.elapsedSeconds + TickShows.remainingSeconds = TickShows.totalWorkSeconds
    /\ TickShows.totalWorkSeconds = (WorkEndMinutes - WorkStartMinutes) * 60
    /\ ClockSeconds < WorkStartMinutes * 60 => TickShows.progressPercent = 0
    /\ ClockSeconds > WorkEndMinutes * 60 => TickShows.progressPercent = One
\* the same under a working day whose start is before its end
TickProgressOfValidDay == (WorkStartMinutes < WorkEndMinutes) => TickProgressInRange

C28_WorkDayProgress ==
    /\ [](TickProgressInRange)
    /\ [](InUnitRange(progressPercent))
    /\ [][updateWorkTimeDisplay
             => /\ progressPercent' = TickShows.progressPercent
                /\ sandTop' = calculateSandHeights(progressPercent').upperHeight
                /\ sandBottom' = calculateSandHeights(progressPercent').lowerHeight]_vars

(***************************************************************************)
(* C29: ordering of the three results.  For every order date and every     *)
(* lead time of at least 1, under the holiday table, the calendar result   *)
(* is not later than the holiday-aware result, which is not later than the *)
(* business result, and all three are strictly later than the order date;  *)
(* and for each mode the result for lead time n + 1 is strictly later      *)
(* than the result for lead time n on the same order date.                 *)
(***************************************************************************)
\* the finished run r was for the same order date with a lead time smaller by one
RunWithOneDayLess(r) ==
    r.orderDate = calcOrderDate /\ parseInt(r.leadTime) + 1 = leadTime
\* the finished run r was for the same order date with a lead time larger by one
RunWithOneDayMore(r) ==
    r.orderDate = calcOrderDate /\ parseInt(r.leadTime) = leadTime + 1
ResultsNow == <<businessDate, holidayAwareDate, calendarDate>>

C29_ResultsOrdered ==
    Computed =>
        /\ leadTime >= 1
        /\ orderDate < calendarDate
        /\ calendarDate <= holidayAwareDate
        /\ holidayAwareDate <= businessDate
        /\ \A r \in lastRun : \A mode \in 1 .. 3 :
               /\ RunWithOneDayLess(r) => r.dates[mode] < ResultsNow[mode]
               /\ RunWithOneDayMore(r) => ResultsNow[mode] < r.dates[mode]

\* a run whose three results differ, after a run for the same order date with a
\* lead time smaller by one
C29_Witness ==
    /\ Computed
    /\ calendarDate < holidayAwareDate
    /\ holidayAwareDate < businessDate
    /\ \E r \in lastRun : RunWithOneDayLess(r)

(***************************************************************************)
(* C30: stopCountdownTimer cancels a countdown that is still in its flip   *)
(* delay.  Once the stop button has been clicked between a start and that  *)
(* start's delayed callback, and until start is clicked again, no          *)
(* countdown interval is live and the mini hourglass shows the reset       *)
(* state: the sand at 0% above and 100% below.                             *)
(***************************************************************************)
C30_StopCancelsFlipDelay ==
    stoppedInFlipDelay =>
        /\ CountdownTimers = {}
        /\ countdownInterval = nullNumber
        /\ miniSandTop = HeightZero
        /\ miniSandBottom = HeightOne

====
